---- MODULE Spec2Model ----
(***************************************************************************)
(* The Sangini invoice contract (contracts/invoice) as a state machine.    *)
(*                                                                         *)
(* The contract's persistent and instance storage are the variables; every *)
(* public entry point is one action.  An entry point is modelled as an     *)
(* operator from the storage before the call to a context [res, s]: the    *)
(* result code and the storage as the code has written it when it returns. *)
(* The host commits the writes of an invocation that returns Ok and        *)
(* discards those of one that returns Err or panics (Commit).              *)
(*                                                                         *)
(* Fields the code only writes and never reads (currency, description,     *)
(* purchase_order, document_hash, token_symbol, verified_at, settled_at,   *)
(* buyer_signed_at, acquired_at, raised_at, reason, created_at of orders)  *)
(* are left out of the records.                                            *)
(***************************************************************************)
EXTENDS Integers, Sequences, FiniteSets, TLC

\* ------------------------------------------------------------------------
\* Program constants
\* ------------------------------------------------------------------------
BPS_DENOMINATOR == 10000
SECONDS_PER_HOUR == 3600
SECONDS_PER_DAY == 86400
DAYS_PER_YEAR == 365
MAX_DISCOUNT_CAP == 5000
FIRST_INVOICE_NUMBER == 1001
FIRST_ORDER_NUMBER == 1
ID_MODULUS == 10000

\* RateConfig: the contract is initialized with the values of RateConfig::default
base_interest_rate == 1000
penalty_rate == 2400
grace_period_days == 30
default_price_drop_rate == 50
insurance_cut_bps == 500

\* ------------------------------------------------------------------------
\* Bounds of the model
\* ------------------------------------------------------------------------
MaxTicks == 2
\* the tokens of a call are a multiple of a lot
Lot == 50
\* a holding is explored while its amount stays within HoldSlack lots below zero
\* and above the face amount
HoldSlack == 1
\* the half hours the clock of an auction runs
MaxHalfHours == 50
\* the sell orders of a run of the order book
MaxOrders == 2
\* the ledgers of a run of the token contract, by sequence number
FirstLedger == 1
MaxLedgers == 3
\* the tokens minted to the owner in a run of the token contract
TokenSupply == 4
\* the owner approves at most MaxGranted tokens to one spender in a run
MaxGranted == 5

\* ------------------------------------------------------------------------
\* The environment: identities, the ledger clock, the inputs of the calls
\* ------------------------------------------------------------------------
Admin == "admin"
Supplier == "supplier"
Buyer == "buyer"
Investor == "investor"
ContractAddress == "contract"
Addresses == {Admin, Supplier, Buyer, Investor}
Accounts == Addresses \cup {ContractAddress}

StartTime == SECONDS_PER_DAY
FaceAmount == 2 * Lot
InitialBalance == [a \in Accounts |-> IF a = Buyer THEN 300 ELSE IF a = Investor THEN 200 ELSE 0]

\* the invoices of the model: the first the contract issues
InvoiceIds == {FIRST_INVOICE_NUMBER}

\* A run is one of three scenarios, which differ in the arguments the callers pass:
\*   "lifecycle"  the primary market with well-formed amounts: auctions at a
\*                discount, investments, transfers, KYC granted and withdrawn,
\*                disputes, settlement, default and insurance;
\*   "ledger"     the token ledger under every kind of amount (negative, zero,
\*                positive) through invest, transfer_tokens and the order book,
\*                within one close of the ledger;
\*   "insured"    a contract initialized with an insurance cut of the whole
\*                payment, so that the pool outgrows the claims on it, and with
\*                invoices of a short and of a long term: investments,
\*                transfers, settlement at either rate, default and claims.
Scenarios == {"lifecycle", "ledger", "insured"}

VARIABLES
    invoice_counter,     \* DataKey::InvoiceCounter
    order_counter,       \* DataKey::OrderCounter
    invoices,            \* DataKey::Invoice(id)
    disputes,            \* DataKey::Dispute(id)
    holdings,            \* DataKey::TokenHolding(InvoiceKey)
    holder_list,         \* DataKey::HolderList(id)
    kyc,                 \* DataKey::KycStatus(addr)
    insurance_pool,      \* DataKey::InsurancePool
    insurance_claimed,   \* DataKey::InsuranceClaimed(InvoiceKey)
    sell_orders,         \* DataKey::SellOrder(id)
    orders_by_invoice,   \* DataKey::OrdersByInvoice(id)
    bal,                 \* the payment asset's balances
    now,                 \* env.ledger().timestamp()
    burned,              \* tokens deleted by settle, clawback and revoke, per invoice
    invested,            \* the payments of the successful invest calls, per invoice
    claimed_out,         \* the payouts of the successful claim_insurance calls, per invoice
    scenario,            \* the scenario of the run
    token,               \* the token contract's storage (contracts/token)
    sequence,            \* env.ledger().sequence()
    granted,             \* the amounts of the successful approve calls, per (from, spender)
    drawn                \* the amounts of the successful transfer_from and burn_from calls

vars == <<invoice_counter, order_counter, invoices, disputes, holdings, holder_list,
          kyc, insurance_pool, insurance_claimed, sell_orders, orders_by_invoice,
          bal, now, burned, invested, claimed_out, scenario,
          token, sequence, granted, drawn>>

token_vars == <<token, sequence, granted, drawn>>

\* the arguments of the calls, per scenario
Amounts == IF scenario = "auction" THEN {999, 1000000} ELSE {0, FaceAmount}
\* invoices fall due ten days after the start; the insured scenario also has
\* invoices that fall due after the last tick of the clock
DueDates ==
    {StartTime + 10 * SECONDS_PER_DAY}
        \cup IF scenario = "insured" THEN {StartTime + 60 * SECONDS_PER_DAY} ELSE {}
InvestAmounts ==
    IF scenario = "ledger" THEN {-Lot, 0, Lot, FaceAmount}
    ELSE IF scenario = "auction" THEN {300000}
    ELSE {Lot, FaceAmount}
TransferAmounts == IF scenario = "ledger" THEN {-Lot, 0, Lot} ELSE {Lot}
\* the insurance_cut_bps passed to initialize
InsuranceCut == IF scenario = "insured" THEN BPS_DENOMINATOR ELSE insurance_cut_bps
\* the sell orders of the model: the first the contract issues
OrderIds ==
    IF scenario = "book" THEN FIRST_ORDER_NUMBER .. (FIRST_ORDER_NUMBER + MaxOrders - 1)
    ELSE {FIRST_ORDER_NUMBER}
OrderAmounts == IF scenario \in {"ledger", "book"} THEN {Lot, FaceAmount} ELSE {}
FillAmounts == {0, Lot}
OrderPrices == IF scenario = "book" THEN {1, 2} ELSE {1}
PaymentAmounts == {FaceAmount - 1, FaceAmount + 3}
DurationHours == IF scenario = "auction" THEN {2, 24} ELSE {0, 24}
DiscountBps == IF scenario = "auction" THEN {0, 1000, 2000} ELSE {1000, MAX_DISCOUNT_CAP + 1}
KycApprovals == IF scenario \in {"lifecycle", "book"} THEN BOOLEAN ELSE {TRUE}
Traders == {Supplier, Investor}
KycSubjects == IF scenario = "book" THEN Traders ELSE {Investor}
\* the callers of an entry point that checks its caller against a stored identity
Callers(role) == {role, Investor}
\* the clock advances by 25 days, and by half an hour while an auction is watched
TickSeconds ==
    IF scenario = "auction" THEN SECONDS_PER_HOUR \div 2 ELSE 25 * SECONDS_PER_DAY
\* the ledger scenario runs within one close of the ledger
Ticks ==
    IF scenario = "ledger" THEN 0
    ELSE IF scenario = "auction" THEN MaxHalfHours
    ELSE MaxTicks
\* the buyer disputes in the lifecycle scenario only
Disputants == IF scenario = "lifecycle" THEN Callers(Buyer) ELSE {Investor}

\* the arguments of the calls of the token contract
TokenOwners == {Supplier}
Spenders == {Investor}
Recipients == {Investor, Buyer}
ApproveAmounts == IF scenario = "token" THEN {-1, 0, 2, 3} ELSE {}
SpendAmounts == IF scenario = "token" THEN {-1, 0, 1, 2} ELSE {}
ExpirationLedgers == FirstLedger .. MaxLedgers
Authorizations == IF scenario = "token" THEN BOOLEAN ELSE {}

\* ------------------------------------------------------------------------
\* Helpers
\* ------------------------------------------------------------------------
\* Rust's integer division truncates toward zero (b > 0)
RustDiv(a, b) == IF a >= 0 THEN a \div b ELSE -((-a) \div b)

\* <<quotient, remainder>> of a * b by c, for a, b >= 0 and c > 0, by doubling:
\* the product itself, which an i128 holds, is never formed
RECURSIVE MulDivParts(_, _, _)
MulDivParts(a, b, c) ==
    IF b = 0 THEN <<0, 0>>
    ELSE LET half == MulDivParts(a, b \div 2, c)
             rest == 2 * half[2] + (IF b % 2 = 1 THEN a % c ELSE 0)
         IN  <<2 * half[1] + (IF b % 2 = 1 THEN a \div c ELSE 0) + (rest \div c), rest % c>>

\* (a * b) / c in Rust's i128 arithmetic, c > 0
RustMulDiv(a, b, c) ==
    LET Abs(x) == IF x < 0 THEN -x ELSE x
        quotient == MulDivParts(Abs(a), Abs(b), c)[1]
    IN  IF (a < 0) = (b < 0) THEN quotient ELSE -quotient

Max(a, b) == IF a >= b THEN a ELSE b
Min(a, b) == IF a <= b THEN a ELSE b

Put(f, k, v) == [x \in (DOMAIN f) \cup {k} |-> IF x = k THEN v ELSE f[x]]
Del(f, k) == [x \in (DOMAIN f) \ {k} |-> f[x]]

\* The storage as one record, as the entry points read and write it
State ==
    [invoice_counter |-> invoice_counter, order_counter |-> order_counter,
     invoices |-> invoices, disputes |-> disputes, holdings |-> holdings,
     holder_list |-> holder_list, kyc |-> kyc, insurance_pool |-> insurance_pool,
     insurance_claimed |-> insurance_claimed, sell_orders |-> sell_orders,
     orders_by_invoice |-> orders_by_invoice, bal |-> bal]

Ok(s) == [res |-> "Ok", s |-> s]
Err(s, e) == [res |-> e, s |-> s]


\* ------------------------------------------------------------------------
\* The payment asset (the token contract's transfer)
\* ------------------------------------------------------------------------
\* transfer(from, to, amount): panics on a negative amount and on an
\* insufficient balance; spend_balance then receive_balance.  The accounts of
\* the model are authorized holders of the asset.
token_transfer(c, from, to, amount) ==
    IF c.res # "Ok" THEN c
    ELSE IF amount < 0 THEN Err(c.s, "HostError")
    ELSE IF c.s.bal[from] < amount THEN Err(c.s, "HostError")
    ELSE LET spent == [c.s.bal EXCEPT ![from] = @ - amount]
         IN  Ok([c.s EXCEPT !.bal = [spent EXCEPT ![to] = @ + amount]])

\* ------------------------------------------------------------------------
\* storage.rs
\* ------------------------------------------------------------------------
has_invoice(s, invoice_id) == invoice_id \in DOMAIN s.invoices
get_invoice(s, invoice_id) == s.invoices[invoice_id]
set_invoice(s, invoice_id, invoice) == [s EXCEPT !.invoices = Put(@, invoice_id, invoice)]

has_dispute(s, invoice_id) == invoice_id \in DOMAIN s.disputes
get_dispute(s, invoice_id) == s.disputes[invoice_id]
set_dispute(s, invoice_id, dispute) == [s EXCEPT !.disputes = Put(@, invoice_id, dispute)]

has_token_holding(s, invoice_id, holder) == <<invoice_id, holder>> \in DOMAIN s.holdings
get_token_holding(s, invoice_id, holder) == s.holdings[<<invoice_id, holder>>]

get_all_holders(s, invoice_id) == s.holder_list[invoice_id]

add_holder_to_list(s, invoice_id, holder) ==
    LET holders == s.holder_list[invoice_id]
        found == \E i \in 1..Len(holders) : holders[i] = holder
    IN  IF found THEN s
        ELSE [s EXCEPT !.holder_list[invoice_id] = Append(holders, holder)]

remove_holder_from_list(s, invoice_id, holder) ==
    [s EXCEPT !.holder_list[invoice_id] = SelectSeq(@, LAMBDA existing : existing # holder)]

set_token_holding(s, invoice_id, holder, holding) ==
    add_holder_to_list([s EXCEPT !.holdings = Put(@, <<invoice_id, holder>>, holding)],
                       invoice_id, holder)

\* a removal of the holding record that leaves the holder in the list
remove_holding_record_only(s, invoice_id, holder) ==
    [s EXCEPT !.holdings = Del(@, <<invoice_id, holder>>)]

remove_token_holding(s, invoice_id, holder) ==
    remove_holder_from_list([s EXCEPT !.holdings = Del(@, <<invoice_id, holder>>)],
                            invoice_id, holder)

clear_token_holdings(s, invoice_id) ==
    LET holders == get_all_holders(s, invoice_id)
        listed == {<<invoice_id, holders[i]>> : i \in 1..Len(holders)}
    IN  [s EXCEPT !.holdings = [k \in (DOMAIN @) \ listed |-> @[k]],
                  !.holder_list[invoice_id] = <<>>]

get_kyc_status(s, investor) == s.kyc[investor]
set_kyc_status(s, investor, approved) == [s EXCEPT !.kyc[investor] = approved]

get_insurance_pool(s) == s.insurance_pool
add_to_insurance_pool(s, amount) == [s EXCEPT !.insurance_pool = @ + amount]
\* withdraw_from_insurance_pool returns false and writes nothing when current < amount
can_withdraw_from_insurance_pool(s, amount) == ~(s.insurance_pool < amount)
\* a withdrawal that leaves the pool's scalar as it was
withdraw_without_debit(s, amount) == s

withdraw_from_insurance_pool(s, amount) ==
    IF s.insurance_pool < amount THEN s ELSE [s EXCEPT !.insurance_pool = @ - amount]

is_insurance_claimed(s, invoice_id, holder) == <<invoice_id, holder>> \in s.insurance_claimed
\* a claim that leaves no trace
claimed_flag_not_set(s, invoice_id, holder) == s

set_insurance_claimed(s, invoice_id, holder) ==
    [s EXCEPT !.insurance_claimed = @ \cup {<<invoice_id, holder>>}]

has_sell_order(s, order_id) == order_id \in DOMAIN s.sell_orders
get_sell_order(s, order_id) == s.sell_orders[order_id]
set_sell_order(s, order_id, order) == [s EXCEPT !.sell_orders = Put(@, order_id, order)]
add_order_to_invoice(s, invoice_id, order_id) ==
    [s EXCEPT !.orders_by_invoice = Put(@, invoice_id,
        Append(IF invoice_id \in DOMAIN @ THEN @[invoice_id] ELSE <<>>, order_id))]

\* ------------------------------------------------------------------------
\* lib.rs: internal helpers
\* ------------------------------------------------------------------------
generate_invoice_id(counter) == (counter + FIRST_INVOICE_NUMBER) % ID_MODULUS
generate_order_id(counter) == (counter + FIRST_ORDER_NUMBER) % ID_MODULUS

\* get_current_price on an invoice whose auction was started
\* a price that keeps falling below the minimum until the auction ends
price_unclamped(invoice, t) ==
    IF t >= invoice.auction_end THEN invoice.min_price
    ELSE invoice.start_price
            - RustDiv(invoice.start_price * invoice.price_drop_rate
                          * ((t - invoice.auction_start) \div SECONDS_PER_HOUR),
                      BPS_DENOMINATOR)

\* a price that drops at the start of each hour, not at its end
price_by_started_hours(invoice, t) ==
    IF t >= invoice.auction_end THEN invoice.min_price
    ELSE Max(invoice.start_price
                - RustDiv(invoice.start_price * invoice.price_drop_rate
                              * ((t - invoice.auction_start + SECONDS_PER_HOUR - 1)
                                     \div SECONDS_PER_HOUR),
                          BPS_DENOMINATOR),
             invoice.min_price)

current_price(invoice, t) ==
    IF t >= invoice.auction_end THEN invoice.min_price
    ELSE LET hours_elapsed == (t - invoice.auction_start) \div SECONDS_PER_HOUR
             total_drop == RustDiv(invoice.start_price * invoice.price_drop_rate * hours_elapsed,
                                   BPS_DENOMINATOR)
         IN  Max(invoice.start_price - total_drop, invoice.min_price)

\* a settlement amount that never charges the penalty rate
settlement_at_base_rate(invoice, t) ==
    invoice.amount
        + RustDiv(invoice.amount * base_interest_rate
                      * ((t - invoice.created_at) \div SECONDS_PER_DAY),
                  BPS_DENOMINATOR * DAYS_PER_YEAR)

calculate_settlement_amount(invoice, t) ==
    LET base_amount == invoice.amount
        days_since_creation == (t - invoice.created_at) \div SECONDS_PER_DAY
        interest_rate == IF t > invoice.due_date THEN penalty_rate ELSE base_interest_rate
        interest == RustDiv(base_amount * interest_rate * days_since_creation,
                            BPS_DENOMINATOR * DAYS_PER_YEAR)
    IN  base_amount + interest

\* a share rounded up to the next unit
share_rounded_up(holding, total_amount, total_tokens) ==
    RustDiv(holding.amount * total_amount + total_tokens - 1, total_tokens)

\* one holder's share in distribute_settlement's loop
settlement_share(holding, total_amount, total_tokens) ==
    RustDiv(holding.amount * total_amount, total_tokens)

RECURSIVE distribute_loop(_, _, _, _, _)
distribute_loop(c, invoice_id, holders, total_amount, total_tokens) ==
    IF c.res # "Ok" \/ holders = <<>> THEN c
    ELSE LET holder_address == Head(holders)
             step ==
                 IF has_token_holding(c.s, invoice_id, holder_address)
                 THEN LET holding == get_token_holding(c.s, invoice_id, holder_address)
                          share == settlement_share(holding, total_amount, total_tokens)
                          paid == token_transfer(c, ContractAddress, holder_address, share)
                      IN  IF paid.res # "Ok" THEN paid
                          ELSE Ok(remove_token_holding(paid.s, invoice_id, holder_address))
                 ELSE c
         IN  distribute_loop(step, invoice_id, Tail(holders), total_amount, total_tokens)

distribute_settlement(c, invoice_id, total_amount) ==
    IF c.res # "Ok" THEN c
    ELSE IF ~has_invoice(c.s, invoice_id) THEN Err(c.s, "InvoiceNotFound")
    ELSE distribute_loop(c, invoice_id, get_all_holders(c.s, invoice_id), total_amount,
                         get_invoice(c.s, invoice_id).total_tokens)

RECURSIVE clawback_loop(_, _, _)
clawback_loop(s, invoice_id, holders) ==
    IF holders = <<>> THEN s
    ELSE clawback_loop(
            IF has_token_holding(s, invoice_id, Head(holders))
            THEN remove_token_holding(s, invoice_id, Head(holders))
            ELSE s,
            invoice_id, Tail(holders))

\* a clawback that spares the first holder of the list
clawback_sparing_first(s, invoice_id) ==
    LET holders == get_all_holders(s, invoice_id)
    IN  clawback_loop(s, invoice_id, IF holders = <<>> THEN holders ELSE Tail(holders))

execute_clawback(s, invoice_id) == clawback_loop(s, invoice_id, get_all_holders(s, invoice_id))

\* a transfer that debits the sender and credits nobody
transfer_without_credit(c, invoice_id, from, to, amount) ==
    IF c.res # "Ok" THEN c
    ELSE IF ~has_token_holding(c.s, invoice_id, from) THEN Err(c.s, "InsufficientTokens")
    ELSE LET held == get_token_holding(c.s, invoice_id, from) IN
         IF held.amount < amount THEN Err(c.s, "InsufficientTokens")
         ELSE Ok(set_token_holding(c.s, invoice_id, from, [held EXCEPT !.amount = @ - amount]))

internal_transfer_tokens(c, invoice_id, from, to, amount) ==
    IF c.res # "Ok" THEN c
    ELSE IF ~has_token_holding(c.s, invoice_id, from) THEN Err(c.s, "InsufficientTokens")
    ELSE LET held == get_token_holding(c.s, invoice_id, from) IN
         IF held.amount < amount THEN Err(c.s, "InsufficientTokens")
         ELSE LET from_holding == [held EXCEPT !.amount = @ - amount]
                  s1 == IF from_holding.amount = 0
                        THEN remove_token_holding(c.s, invoice_id, from)
                        ELSE set_token_holding(c.s, invoice_id, from, from_holding)
                  to_holding ==
                      IF has_token_holding(s1, invoice_id, to)
                      THEN [get_token_holding(s1, invoice_id, to) EXCEPT !.amount = @ + amount]
                      ELSE [amount |-> amount, acquired_price |-> from_holding.acquired_price]
              IN  Ok(set_token_holding(s1, invoice_id, to, to_holding))


\* ------------------------------------------------------------------------
\* lib.rs: the entry points.  t is env.ledger().timestamp()
\* ------------------------------------------------------------------------
initialize(s, admin) ==
    \* has_admin: the state after construction is an initialized contract
    Err(s, "AlreadyInitialized")

mint_draft(s, t, supplier, buyer, amount, due_date) ==
    IF amount <= 0 THEN Err(s, "InvalidAmount")
    ELSE LET counter == s.invoice_counter
             invoice_id == generate_invoice_id(counter)
             invoice == [supplier |-> supplier, buyer |-> buyer, amount |-> amount,
                         created_at |-> t, due_date |-> due_date, status |-> "Draft",
                         total_tokens |-> 0, tokens_sold |-> 0, tokens_remaining |-> 0,
                         repayment_received |-> 0, auction_start |-> 0, auction_end |-> 0,
                         start_price |-> 0, min_price |-> 0, price_drop_rate |-> 0]
         IN  Ok(set_invoice([s EXCEPT !.invoice_counter = counter + 1], invoice_id, invoice))

\* an approval that mints again whatever the status of the invoice
approve_invoice_in_any_status(s, t, invoice_id, buyer) ==
    IF ~has_invoice(s, invoice_id) THEN Err(s, "InvoiceNotFound")
    ELSE LET invoice == get_invoice(s, invoice_id) IN
    IF invoice.buyer # buyer THEN Err(s, "Unauthorized")
    ELSE LET minted == [invoice EXCEPT !.status = "Verified",
                                       !.total_tokens = invoice.amount,
                                       !.tokens_sold = 0,
                                       !.tokens_remaining = invoice.amount]
         IN  Ok(set_token_holding(set_invoice(s, invoice_id, minted), invoice_id,
                    minted.supplier,
                    [amount |-> minted.total_tokens, acquired_price |-> minted.amount]))

approve_invoice(s, t, invoice_id, buyer) ==
    IF ~has_invoice(s, invoice_id) THEN Err(s, "InvoiceNotFound")
    ELSE LET invoice == get_invoice(s, invoice_id) IN
    IF invoice.buyer # buyer THEN Err(s, "Unauthorized")
    ELSE IF invoice.status # "Draft" THEN Err(s, "InvalidStatus")
    ELSE LET minted == [invoice EXCEPT !.status = "Verified",
                                       !.total_tokens = invoice.amount,
                                       !.tokens_sold = 0,
                                       !.tokens_remaining = invoice.amount]
             holding == [amount |-> minted.total_tokens, acquired_price |-> minted.amount]
         IN  Ok(set_token_holding(set_invoice(s, invoice_id, minted),
                                  invoice_id, minted.supplier, holding))

start_auction(s, t, invoice_id, supplier, duration_hours, max_discount_bps) ==
    IF ~has_invoice(s, invoice_id) THEN Err(s, "InvoiceNotFound")
    ELSE LET invoice == get_invoice(s, invoice_id) IN
    IF invoice.status # "Verified" THEN Err(s, "InvalidStatus")
    ELSE IF invoice.supplier # supplier THEN Err(s, "Unauthorized")
    ELSE IF duration_hours = 0 \/ max_discount_bps > MAX_DISCOUNT_CAP
         THEN Err(s, "InvalidAuctionParams")
    ELSE Ok(set_invoice(s, invoice_id,
            [invoice EXCEPT !.auction_start = t,
                            !.auction_end = t + duration_hours * SECONDS_PER_HOUR,
                            !.start_price = invoice.amount,
                            !.min_price = invoice.amount
                                - RustDiv(invoice.amount * max_discount_bps, BPS_DENOMINATOR),
                            !.price_drop_rate = default_price_drop_rate,
                            !.status = "Funding"]))

get_current_price(s, t, invoice_id) ==
    IF ~has_invoice(s, invoice_id) THEN [res |-> "InvoiceNotFound", price |-> 0]
    ELSE IF get_invoice(s, invoice_id).auction_start = 0
         THEN [res |-> "AuctionNotStarted", price |-> 0]
    ELSE [res |-> "Ok", price |-> current_price(get_invoice(s, invoice_id), t)]

\* an investment that credits the investor and leaves the supplier's holding alone
move_tokens_without_debit(c, invoice_id, supplier, investor, token_amount, payment_amount) ==
    IF c.res # "Ok" THEN c
    ELSE IF ~has_token_holding(c.s, invoice_id, supplier) THEN Err(c.s, "InsufficientTokens")
    ELSE IF get_token_holding(c.s, invoice_id, supplier).amount < token_amount
         THEN Err(c.s, "InsufficientTokens")
    ELSE Ok(set_token_holding(c.s, invoice_id, investor,
            IF has_token_holding(c.s, invoice_id, investor)
            THEN [get_token_holding(c.s, invoice_id, investor)
                      EXCEPT !.amount = @ + token_amount,
                             !.acquired_price = @ + payment_amount]
            ELSE [amount |-> token_amount, acquired_price |-> payment_amount]))

\* an investment that overwrites the acquired price of an existing holding
move_tokens_resetting_price(c, invoice_id, supplier, investor, token_amount, payment_amount) ==
    IF c.res # "Ok" THEN c
    ELSE IF ~has_token_holding(c.s, invoice_id, supplier) THEN Err(c.s, "InsufficientTokens")
    ELSE LET held == get_token_holding(c.s, invoice_id, supplier) IN
         IF held.amount < token_amount THEN Err(c.s, "InsufficientTokens")
         ELSE LET supplier_holding == [held EXCEPT !.amount = @ - token_amount]
                  s1 == IF supplier_holding.amount = 0
                        THEN remove_token_holding(c.s, invoice_id, supplier)
                        ELSE set_token_holding(c.s, invoice_id, supplier, supplier_holding)
                  investor_holding ==
                      [amount |-> token_amount
                                    + (IF has_token_holding(s1, invoice_id, investor)
                                       THEN get_token_holding(s1, invoice_id, investor).amount
                                       ELSE 0),
                       acquired_price |-> payment_amount]
              IN  Ok(set_token_holding(s1, invoice_id, investor, investor_holding))

\* invest, the ledger part: the supplier's holding is debited and the investor's credited
invest_move_tokens(c, invoice_id, supplier, investor, token_amount, payment_amount) ==
    IF c.res # "Ok" THEN c
    ELSE IF ~has_token_holding(c.s, invoice_id, supplier) THEN Err(c.s, "InsufficientTokens")
    ELSE LET held == get_token_holding(c.s, invoice_id, supplier) IN
         IF held.amount < token_amount THEN Err(c.s, "InsufficientTokens")
         ELSE LET supplier_holding == [held EXCEPT !.amount = @ - token_amount]
                  s1 == IF supplier_holding.amount = 0
                        THEN remove_token_holding(c.s, invoice_id, supplier)
                        ELSE set_token_holding(c.s, invoice_id, supplier, supplier_holding)
                  investor_holding ==
                      IF has_token_holding(s1, invoice_id, investor)
                      THEN [get_token_holding(s1, invoice_id, investor)
                                EXCEPT !.amount = @ + token_amount,
                                       !.acquired_price = @ + payment_amount]
                      ELSE [amount |-> token_amount, acquired_price |-> payment_amount]
              IN  Ok(set_token_holding(s1, invoice_id, investor, investor_holding))

\* a sale that is counted as sold and not taken from what remains
record_sale_without_remaining(invoice, token_amount) ==
    [invoice EXCEPT !.tokens_sold = @ + token_amount]

\* invest, the invoice part: the sale is recorded; the invoice is Funded when nothing remains
invest_record_sale(invoice, token_amount) ==
    LET sold == [invoice EXCEPT !.tokens_sold = @ + token_amount,
                                !.tokens_remaining = @ - token_amount]
    IN  IF sold.tokens_remaining = 0 THEN [sold EXCEPT !.status = "Funded"] ELSE sold

\* the part of an investment's payment withheld for the insurance pool
insurance_cut(payment_amount) == RustDiv(payment_amount * InsuranceCut, BPS_DENOMINATOR)

\* the payment invest charges for token_amount tokens of a stored invoice
invest_payment_amount(s, t, invoice_id, token_amount) ==
    LET invoice == get_invoice(s, invoice_id)
        price == IF invoice.auction_start > 0
                 THEN get_current_price(s, t, invoice_id).price
                 ELSE invoice.amount
    IN  RustMulDiv(token_amount, price, invoice.total_tokens)

invest(s, t, invoice_id, investor, token_amount) ==
    IF ~get_kyc_status(s, investor) THEN Err(s, "KYCRequired")
    ELSE IF ~has_invoice(s, invoice_id) THEN Err(s, "InvoiceNotFound")
    ELSE LET invoice == get_invoice(s, invoice_id) IN
    IF invoice.status # "Funding" /\ invoice.status # "Verified" THEN Err(s, "InvalidStatus")
    ELSE IF token_amount > invoice.tokens_remaining THEN Err(s, "InsufficientTokens")
    ELSE LET payment_amount == invest_payment_amount(s, t, invoice_id, token_amount)
             insurance_amount == insurance_cut(payment_amount)
             supplier_payment == payment_amount - insurance_amount
             c1 == token_transfer(Ok(s), investor, ContractAddress, payment_amount)
             c2 == token_transfer(c1, ContractAddress, invoice.supplier, supplier_payment)
             c3 == IF c2.res # "Ok" THEN c2
                   ELSE Ok(add_to_insurance_pool(c2.s, insurance_amount))
             c4 == invest_move_tokens(c3, invoice_id, invoice.supplier, investor,
                                      token_amount, payment_amount)
         IN  IF c4.res # "Ok" THEN c4
             ELSE Ok(set_invoice(c4.s, invoice_id, invest_record_sale(invoice, token_amount)))

claim_insurance(s, t, invoice_id, investor) ==
    IF ~has_invoice(s, invoice_id) THEN Err(s, "InvoiceNotFound")
    ELSE IF get_invoice(s, invoice_id).status # "Defaulted" THEN Err(s, "NotDefaulted")
    ELSE IF is_insurance_claimed(s, invoice_id, investor) THEN Err(s, "AlreadyClaimed")
    ELSE IF ~has_token_holding(s, invoice_id, investor) THEN Err(s, "HoldingNotFound")
    ELSE LET holding == get_token_holding(s, invoice_id, investor)
             claim_amount == RustDiv(holding.acquired_price, 2)
             pool_balance == get_insurance_pool(s)
             actual_payout == Min(claim_amount, pool_balance)
         IN  IF actual_payout = 0 THEN Err(s, "InsufficientInsurancePool")
             ELSE IF ~can_withdraw_from_insurance_pool(s, actual_payout)
                  THEN Err(s, "InsufficientInsurancePool")
             ELSE LET c1 == token_transfer(Ok(withdraw_from_insurance_pool(s, actual_payout)),
                                           ContractAddress, investor, actual_payout)
                  IN  IF c1.res # "Ok" THEN c1
                      ELSE Ok(set_insurance_claimed(c1.s, invoice_id, investor))

\* a listing refused while the seller has another order open
create_sell_order_one_at_a_time(s, t, invoice_id, seller, token_amount, price_per_token) ==
    IF ~has_token_holding(s, invoice_id, seller) THEN Err(s, "HoldingNotFound")
    ELSE IF \/ get_token_holding(s, invoice_id, seller).amount < token_amount
            \/ \E o \in DOMAIN s.sell_orders :
                   /\ s.sell_orders[o].seller = seller
                   /\ s.sell_orders[o].status \in {"Open", "PartiallyFilled"}
         THEN Err(s, "InsufficientTokens")
    ELSE LET order_id == generate_order_id(s.order_counter)
             order == [invoice_id |-> invoice_id, seller |-> seller,
                       token_amount |-> token_amount, price_per_token |-> price_per_token,
                       tokens_remaining |-> token_amount, status |-> "Open"]
         IN  Ok(add_order_to_invoice(
                    set_sell_order([s EXCEPT !.order_counter = @ + 1], order_id, order),
                    invoice_id, order_id))

create_sell_order(s, t, invoice_id, seller, token_amount, price_per_token) ==
    IF ~has_token_holding(s, invoice_id, seller) THEN Err(s, "HoldingNotFound")
    ELSE IF get_token_holding(s, invoice_id, seller).amount < token_amount
         THEN Err(s, "InsufficientTokens")
    ELSE LET counter == s.order_counter
             order_id == generate_order_id(counter)
             order == [invoice_id |-> invoice_id, seller |-> seller,
                       token_amount |-> token_amount, price_per_token |-> price_per_token,
                       tokens_remaining |-> token_amount, status |-> "Open"]
         IN  Ok(add_order_to_invoice(
                    set_sell_order([s EXCEPT !.order_counter = counter + 1], order_id, order),
                    invoice_id, order_id))

\* a fill charged one unit of the payment asset a token, whatever the listed price
fill_order_at_unit_price(s, t, order_id, buyer, token_amount) ==
    IF ~get_kyc_status(s, buyer) THEN Err(s, "KYCRequired")
    ELSE IF ~has_sell_order(s, order_id) THEN Err(s, "OrderNotFound")
    ELSE LET order == get_sell_order(s, order_id) IN
    IF order.status # "Open" /\ order.status # "PartiallyFilled" THEN Err(s, "OrderNotActive")
    ELSE IF token_amount > order.tokens_remaining THEN Err(s, "InsufficientTokens")
    ELSE LET c1 == token_transfer(Ok(s), buyer, order.seller, token_amount)
             c2 == internal_transfer_tokens(c1, order.invoice_id, order.seller, buyer,
                                            token_amount)
             left == order.tokens_remaining - token_amount
         IN  IF c2.res # "Ok" THEN c2
             ELSE Ok(set_sell_order(c2.s, order_id,
                                    [order EXCEPT !.tokens_remaining = left,
                                                  !.status = IF left = 0 THEN "Filled"
                                                             ELSE "PartiallyFilled"]))

\* a fill that does not look at the status of the order
fill_order_in_any_status(s, t, order_id, buyer, token_amount) ==
    IF ~get_kyc_status(s, buyer) THEN Err(s, "KYCRequired")
    ELSE IF ~has_sell_order(s, order_id) THEN Err(s, "OrderNotFound")
    ELSE LET order == get_sell_order(s, order_id) IN
    IF token_amount > order.tokens_remaining THEN Err(s, "InsufficientTokens")
    ELSE LET c1 == token_transfer(Ok(s), buyer, order.seller,
                                  token_amount * order.price_per_token)
             c2 == internal_transfer_tokens(c1, order.invoice_id, order.seller, buyer,
                                            token_amount)
             left == order.tokens_remaining - token_amount
         IN  IF c2.res # "Ok" THEN c2
             ELSE Ok(set_sell_order(c2.s, order_id,
                                    [order EXCEPT !.tokens_remaining = left,
                                                  !.status = IF left = 0 THEN "Filled"
                                                             ELSE "PartiallyFilled"]))

fill_order(s, t, order_id, buyer, token_amount) ==
    IF ~get_kyc_status(s, buyer) THEN Err(s, "KYCRequired")
    ELSE IF ~has_sell_order(s, order_id) THEN Err(s, "OrderNotFound")
    ELSE LET order == get_sell_order(s, order_id) IN
    IF order.status # "Open" /\ order.status # "PartiallyFilled" THEN Err(s, "OrderNotActive")
    ELSE IF token_amount > order.tokens_remaining THEN Err(s, "InsufficientTokens")
    ELSE LET payment == token_amount * order.price_per_token
             c1 == token_transfer(Ok(s), buyer, order.seller, payment)
             c2 == internal_transfer_tokens(c1, order.invoice_id, order.seller, buyer,
                                            token_amount)
             left == order.tokens_remaining - token_amount
             filled == [order EXCEPT !.tokens_remaining = left,
                                     !.status = IF left = 0 THEN "Filled"
                                                ELSE "PartiallyFilled"]
         IN  IF c2.res # "Ok" THEN c2 ELSE Ok(set_sell_order(c2.s, order_id, filled))

cancel_order(s, order_id, seller) ==
    IF ~has_sell_order(s, order_id) THEN Err(s, "OrderNotFound")
    ELSE LET order == get_sell_order(s, order_id) IN
    IF order.seller # seller THEN Err(s, "Unauthorized")
    ELSE IF order.status = "Filled" THEN Err(s, "OrderAlreadyFilled")
    ELSE Ok(set_sell_order(s, order_id, [order EXCEPT !.status = "Cancelled"]))

\* a transfer open in every status of the invoice
transfer_tokens_in_any_status(s, invoice_id, from, to, amount) ==
    IF ~has_invoice(s, invoice_id) THEN Err(s, "InvoiceNotFound")
    ELSE internal_transfer_tokens(Ok(s), invoice_id, from, to, amount)

transfer_tokens(s, invoice_id, from, to, amount) ==
    IF ~has_invoice(s, invoice_id) THEN Err(s, "InvoiceNotFound")
    ELSE LET invoice == get_invoice(s, invoice_id) IN
    IF invoice.status # "Verified" /\ invoice.status # "Funded" /\ invoice.status # "Funding"
    THEN Err(s, "InvalidStatus")
    ELSE internal_transfer_tokens(Ok(s), invoice_id, from, to, amount)

\* a status check that does not look at the status the invoice has
status_by_date_alone(invoice, t) ==
    IF t > invoice.due_date + grace_period_days * SECONDS_PER_DAY THEN "Defaulted"
    ELSE IF t > invoice.due_date THEN "Overdue"
    ELSE invoice.status

\* a default declared on the last instant of the grace period
checked_status_grace_inclusive(invoice, t) ==
    IF invoice.status \in {"Verified", "Funded", "Funding", "Overdue"}
       /\ invoice.repayment_received = 0
    THEN IF t >= invoice.due_date + grace_period_days * SECONDS_PER_DAY THEN "Defaulted"
         ELSE IF t > invoice.due_date /\ invoice.status # "Overdue" THEN "Overdue"
         ELSE invoice.status
    ELSE invoice.status

\* a status that advances one stage per call: Overdue first, Defaulted next
checked_status_stepwise(invoice, t) ==
    IF invoice.status \in {"Verified", "Funded", "Funding"} /\ t > invoice.due_date
    THEN "Overdue"
    ELSE IF invoice.status = "Overdue"
            /\ t > invoice.due_date + grace_period_days * SECONDS_PER_DAY
    THEN "Defaulted"
    ELSE invoice.status

\* a check that marks invoices overdue and never declares a default
checked_status_overdue_only(invoice, t) ==
    IF invoice.status \in {"Verified", "Funded", "Funding"}
       /\ invoice.repayment_received = 0 /\ t > invoice.due_date
    THEN "Overdue"
    ELSE invoice.status

\* the status check_status stores (and returns) for an invoice at time t
checked_status(invoice, t) ==
    IF invoice.status \in {"Verified", "Funded", "Funding", "Overdue"}
       /\ invoice.repayment_received = 0
    THEN LET grace_period_seconds == grace_period_days * SECONDS_PER_DAY IN
         IF t > invoice.due_date + grace_period_seconds THEN "Defaulted"
         ELSE IF t > invoice.due_date /\ invoice.status # "Overdue" THEN "Overdue"
         ELSE invoice.status
    ELSE invoice.status

check_status(s, t, invoice_id) ==
    IF ~has_invoice(s, invoice_id) THEN Err(s, "InvoiceNotFound")
    ELSE LET invoice == get_invoice(s, invoice_id)
             status == checked_status(invoice, t)
         IN  IF status # invoice.status
             THEN Ok(set_invoice(s, invoice_id, [invoice EXCEPT !.status = status]))
             ELSE Ok(s)

\* the status check_status returns: the invoice's status after the check
check_status_value(s, t, invoice_id) == checked_status(get_invoice(s, invoice_id), t)

\* a settle that takes an invoice in any status
settle_in_any_status(status) == TRUE

\* settle's status guard: the statuses in which an invoice can be settled
settle_status_ok(status) ==
    ~(status # "Funded" /\ status # "Overdue" /\ status # "Verified" /\ status # "Funding")

settle(s, t, invoice_id, buyer, payment_amount) ==
    IF ~has_invoice(s, invoice_id) THEN Err(s, "InvoiceNotFound")
    ELSE LET invoice == get_invoice(s, invoice_id) IN
    IF invoice.buyer # buyer THEN Err(s, "Unauthorized")
    ELSE IF ~settle_status_ok(invoice.status) THEN Err(s, "InvalidStatus")
    ELSE IF invoice.status = "Disputed" THEN Err(s, "InvoiceDisputed")
    ELSE LET required_payment == calculate_settlement_amount(invoice, t) IN
         IF payment_amount < required_payment THEN Err(s, "InsufficientPayment")
         ELSE LET c1 == token_transfer(Ok(s), buyer, ContractAddress, payment_amount)
                  c2 == distribute_settlement(c1, invoice_id, payment_amount)
              IN  IF c2.res # "Ok" THEN c2
                  ELSE Ok(set_invoice(c2.s, invoice_id,
                          [invoice EXCEPT !.status = "Settled",
                                          !.repayment_received = payment_amount]))

\* a dispute the buyer can raise in any status
raise_dispute_in_any_status(s, t, invoice_id, buyer) ==
    IF ~has_invoice(s, invoice_id) THEN Err(s, "InvoiceNotFound")
    ELSE IF get_invoice(s, invoice_id).buyer # buyer THEN Err(s, "Unauthorized")
    ELSE Ok(set_invoice(set_dispute(s, invoice_id,
                [raised_by |-> buyer, resolution |-> "Pending", resolved_at |-> 0]),
            invoice_id, [get_invoice(s, invoice_id) EXCEPT !.status = "Disputed"]))

\* a dispute anyone can raise
raise_dispute_by_anyone(s, t, invoice_id, buyer) ==
    IF ~has_invoice(s, invoice_id) THEN Err(s, "InvoiceNotFound")
    ELSE IF get_invoice(s, invoice_id).status \notin {"Verified", "Funded", "Funding", "Overdue"}
         THEN Err(s, "InvalidStatus")
    ELSE Ok(set_invoice(set_dispute(s, invoice_id,
                [raised_by |-> buyer, resolution |-> "Pending", resolved_at |-> 0]),
            invoice_id, [get_invoice(s, invoice_id) EXCEPT !.status = "Disputed"]))

raise_dispute(s, t, invoice_id, buyer) ==
    IF ~has_invoice(s, invoice_id) THEN Err(s, "InvoiceNotFound")
    ELSE LET invoice == get_invoice(s, invoice_id) IN
    IF invoice.buyer # buyer THEN Err(s, "Unauthorized")
    ELSE IF invoice.status # "Verified" /\ invoice.status # "Funded"
            /\ invoice.status # "Funding" /\ invoice.status # "Overdue"
         THEN Err(s, "InvalidStatus")
    ELSE LET dispute == [raised_by |-> buyer, resolution |-> "Pending", resolved_at |-> 0]
         IN  Ok(set_invoice(set_dispute(s, invoice_id, dispute), invoice_id,
                            [invoice EXCEPT !.status = "Disputed"]))

\* a ruling that leaves a rejected dispute's invoice in Disputed
resolve_dispute_keeping_status(s, t, invoice_id, admin, is_valid) ==
    IF Admin # admin THEN Err(s, "Unauthorized")
    ELSE IF ~has_invoice(s, invoice_id) THEN Err(s, "InvoiceNotFound")
    ELSE IF get_invoice(s, invoice_id).status # "Disputed" THEN Err(s, "InvalidStatus")
    ELSE IF ~has_dispute(s, invoice_id) THEN Err(s, "DisputeNotFound")
    ELSE Ok(set_dispute(IF is_valid THEN execute_clawback(s, invoice_id) ELSE s, invoice_id,
                [get_dispute(s, invoice_id)
                    EXCEPT !.resolution = IF is_valid THEN "Valid" ELSE "Invalid",
                           !.resolved_at = t]))

\* a rejected dispute that hands a past-due invoice back as Overdue
resolve_dispute_restoring_overdue(s, t, invoice_id, admin, is_valid) ==
    IF Admin # admin THEN Err(s, "Unauthorized")
    ELSE IF ~has_invoice(s, invoice_id) THEN Err(s, "InvoiceNotFound")
    ELSE IF get_invoice(s, invoice_id).status # "Disputed" THEN Err(s, "InvalidStatus")
    ELSE IF ~has_dispute(s, invoice_id) THEN Err(s, "DisputeNotFound")
    ELSE LET invoice == get_invoice(s, invoice_id)
             after == IF is_valid THEN invoice
                      ELSE [invoice EXCEPT !.status = IF t > invoice.due_date
                                                      THEN "Overdue" ELSE "Funded"]
         IN  Ok(set_invoice(set_dispute(IF is_valid THEN execute_clawback(s, invoice_id) ELSE s,
                    invoice_id,
                    [get_dispute(s, invoice_id)
                        EXCEPT !.resolution = IF is_valid THEN "Valid" ELSE "Invalid",
                               !.resolved_at = t]),
                invoice_id, after))

resolve_dispute(s, t, invoice_id, admin, is_valid) ==
    IF Admin # admin THEN Err(s, "Unauthorized")
    ELSE IF ~has_invoice(s, invoice_id) THEN Err(s, "InvoiceNotFound")
    ELSE LET invoice == get_invoice(s, invoice_id) IN
    IF invoice.status # "Disputed" THEN Err(s, "InvalidStatus")
    ELSE IF ~has_dispute(s, invoice_id) THEN Err(s, "DisputeNotFound")
    ELSE LET dispute == get_dispute(s, invoice_id)
             s1 == IF is_valid THEN execute_clawback(s, invoice_id) ELSE s
             ruled == [dispute EXCEPT !.resolution = IF is_valid THEN "Valid" ELSE "Invalid",
                                      !.resolved_at = t]
             after == IF is_valid THEN invoice ELSE [invoice EXCEPT !.status = "Funded"]
         IN  Ok(set_invoice(set_dispute(s1, invoice_id, ruled), invoice_id, after))

\* a revocation open from the due date itself
revoke_when_due(s, t, invoice_id, supplier) ==
    IF ~has_invoice(s, invoice_id) THEN Err(s, "InvoiceNotFound")
    ELSE LET invoice == get_invoice(s, invoice_id) IN
    IF invoice.supplier # supplier THEN Err(s, "Unauthorized")
    ELSE IF ~(invoice.status = "Draft"
                \/ (invoice.status = "Verified" /\ t >= invoice.due_date))
         THEN Err(s, "CannotRevoke")
    ELSE Ok(set_invoice(clear_token_holdings(s, invoice_id), invoice_id,
                        [invoice EXCEPT !.status = "Revoked"]))

revoke(s, t, invoice_id, supplier) ==
    IF ~has_invoice(s, invoice_id) THEN Err(s, "InvoiceNotFound")
    ELSE LET invoice == get_invoice(s, invoice_id) IN
    IF invoice.supplier # supplier THEN Err(s, "Unauthorized")
    ELSE LET can_revoke == CASE invoice.status = "Draft" -> TRUE
                             [] invoice.status = "Verified" -> t > invoice.due_date
                             [] OTHER -> FALSE
         IN  IF ~can_revoke THEN Err(s, "CannotRevoke")
             ELSE Ok(set_invoice(clear_token_holdings(s, invoice_id), invoice_id,
                                 [invoice EXCEPT !.status = "Revoked"]))

\* a KYC flag anyone can set
set_investor_kyc_by_anyone(s, admin, investor, approved) ==
    Ok(set_kyc_status(s, investor, approved))

set_investor_kyc(s, admin, investor, approved) ==
    IF Admin # admin THEN Err(s, "Unauthorized")
    ELSE Ok(set_kyc_status(s, investor, approved))


\* ------------------------------------------------------------------------
\* The host: an invocation's writes are committed when it returns Ok and
\* rolled back when it returns Err or panics
\* ------------------------------------------------------------------------
\* a host that keeps the writes of a call whatever it returns
commit_without_rollback(pre, c) == c.s

Commit(pre, c) == IF c.res = "Ok" THEN c.s ELSE pre

Install(s) ==
    /\ invoice_counter' = s.invoice_counter
    /\ order_counter' = s.order_counter
    /\ invoices' = s.invoices
    /\ disputes' = s.disputes
    /\ holdings' = s.holdings
    /\ holder_list' = s.holder_list
    /\ kyc' = s.kyc
    /\ insurance_pool' = s.insurance_pool
    /\ insurance_claimed' = s.insurance_claimed
    /\ sell_orders' = s.sell_orders
    /\ orders_by_invoice' = s.orders_by_invoice
    /\ bal' = s.bal

\* the sum of the amounts of the stored holdings of an invoice
RECURSIVE SumOver(_, _)
SumOver(f, keys) ==
    IF keys = {} THEN 0
    ELSE LET k == CHOOSE x \in keys : TRUE IN f[k].amount + SumOver(f, keys \ {k})

HeldSum(s, invoice_id) ==
    SumOver(s.holdings, {k \in DOMAIN s.holdings : k[1] = invoice_id})

\* the part of the state space that is explored
WithinBounds(s) ==
    \A k \in DOMAIN s.holdings :
        /\ s.holdings[k].amount >= -(HoldSlack * Lot)
        /\ s.holdings[k].amount <= get_invoice(s, k[1]).amount + HoldSlack * Lot

\* no payment on any invoice
NoPayments == [i \in InvoiceIds |-> 0]

\* one call: the host installs the storage the call leaves; burns says whether the
\* tokens the call deletes are burned (settle, clawback, revoke); paid and
\* paid_out are the amounts, per invoice, that the call reports, when it
\* succeeds, as invested and as claimed from the insurance pool
Host(c, burns, paid, paid_out) ==
    LET post == Commit(State, c) IN
    /\ WithinBounds(post)
    /\ Install(post)
    /\ burned' = [i \in InvoiceIds |->
                    IF burns THEN burned[i] + (HeldSum(State, i) - HeldSum(post, i))
                    ELSE burned[i]]
    /\ invested' = [i \in InvoiceIds |-> invested[i] + paid[i]]
    /\ claimed_out' = [i \in InvoiceIds |-> claimed_out[i] + paid_out[i]]
    /\ UNCHANGED <<now, scenario, token_vars>>

\* a call that is neither an investment nor an insurance claim
Call(c, burns) == Host(c, burns, NoPayments, NoPayments)

\* ------------------------------------------------------------------------
\* The token contract (contracts/token): balances, authorization (KYC) and
\* allowances.  Its storage is one record; an entry point is an operator from
\* the storage ts and the ledger sequence seq to a context, as above.  The
\* address whose authorization an entry point requires is the caller's own.
\* An allowance lives in temporary storage; a run is shorter than the time a
\* temporary entry lives at least, so an entry is absent only if it was never
\* written.
\* ------------------------------------------------------------------------
PairKeys == Addresses \X Addresses

\* the storage after initialize(admin = Admin, invoice_contract = ContractAddress)
TokenGenesis ==
    [balance |-> [a \in Accounts |-> 0],
     authorized |-> [a \in Accounts |-> FALSE],
     allowance |-> <<>>]

read_allowance(ts, seq, from, spender) ==
    IF <<from, spender>> \in DOMAIN ts.allowance
    THEN LET allowance == ts.allowance[<<from, spender>>] IN
         IF allowance.expiration_ledger < seq
         THEN [amount |-> 0, expiration_ledger |-> allowance.expiration_ledger]
         ELSE allowance
    ELSE [amount |-> 0, expiration_ledger |-> 0]

write_allowance(ts, seq, from, spender, amount, expiration_ledger) ==
    IF amount > 0 /\ expiration_ledger > seq
    THEN [ts EXCEPT !.allowance =
             Put(@, <<from, spender>>,
                 [amount |-> amount, expiration_ledger |-> expiration_ledger])]
    ELSE ts

spend_allowance(c, seq, from, spender, amount) ==
    IF c.res # "Ok" THEN c
    ELSE LET allowance == read_allowance(c.s, seq, from, spender) IN
         IF allowance.amount < amount THEN Err(c.s, "HostError")
         ELSE IF amount > 0
         THEN Ok(write_allowance(c.s, seq, from, spender, allowance.amount - amount,
                                 allowance.expiration_ledger))
         ELSE c

read_balance(ts, addr) == ts.balance[addr]

write_balance(ts, addr, amount) == [ts EXCEPT !.balance[addr] = amount]

receive_balance(c, addr, amount) ==
    IF c.res # "Ok" THEN c
    ELSE Ok(write_balance(c.s, addr, read_balance(c.s, addr) + amount))

spend_balance(c, addr, amount) ==
    IF c.res # "Ok" THEN c
    ELSE LET balance == read_balance(c.s, addr) IN
         IF balance < amount THEN Err(c.s, "HostError")
         ELSE Ok(write_balance(c.s, addr, balance - amount))

check_nonnegative_amount(c, amount) ==
    IF c.res # "Ok" THEN c
    ELSE IF amount < 0 THEN Err(c.s, "HostError") ELSE c

is_authorized(ts, addr) == ts.authorized[addr]

\* the admin and the invoice contract are always authorized
require_authorized(c, addr) ==
    IF c.res # "Ok" THEN c
    ELSE IF addr = Admin THEN c
    ELSE IF addr = ContractAddress THEN c
    ELSE IF ~is_authorized(c.s, addr) THEN Err(c.s, "HostError")
    ELSE c

mint(ts, to, amount) ==
    receive_balance(check_nonnegative_amount(Ok(ts), amount), to, amount)

set_authorized(ts, addr, authorized) ==
    Ok([ts EXCEPT !.authorized[addr] = authorized])

approve(ts, seq, from, spender, amount, expiration_ledger) ==
    LET c == check_nonnegative_amount(Ok(ts), amount) IN
    IF c.res # "Ok" THEN c
    ELSE Ok(write_allowance(c.s, seq, from, spender, amount, expiration_ledger))

transfer_from(ts, seq, spender, from, to, amount) ==
    LET c1 == check_nonnegative_amount(Ok(ts), amount)
        c2 == require_authorized(c1, from)
        c3 == require_authorized(c2, to)
        c4 == spend_allowance(c3, seq, from, spender, amount)
        c5 == spend_balance(c4, from, amount)
    IN  receive_balance(c5, to, amount)

burn_from(ts, seq, spender, from, amount) ==
    LET c1 == check_nonnegative_amount(Ok(ts), amount)
        c2 == spend_allowance(c1, seq, from, spender, amount)
    IN  spend_balance(c2, from, amount)

NoAllowances == [k \in PairKeys |-> 0]

\* the token contract is not deployed
TokenIdle ==
    /\ token = TokenGenesis
    /\ sequence = FirstLedger
    /\ granted = NoAllowances
    /\ drawn = NoAllowances

\* the storage of an initialized contract before its first invoice
Genesis ==
    [invoice_counter |-> 0, order_counter |-> 0, invoices |-> <<>>, disputes |-> <<>>,
     holdings |-> <<>>, holder_list |-> [i \in InvoiceIds |-> <<>>],
     kyc |-> [a \in Addresses |-> FALSE], insurance_pool |-> 0,
     insurance_claimed |-> {}, sell_orders |-> <<>>, orders_by_invoice |-> <<>>,
     bal |-> InitialBalance]

\* the contract's storage is s
Stored(s) ==
    /\ invoice_counter = s.invoice_counter
    /\ order_counter = s.order_counter
    /\ invoices = s.invoices
    /\ disputes = s.disputes
    /\ holdings = s.holdings
    /\ holder_list = s.holder_list
    /\ kyc = s.kyc
    /\ insurance_pool = s.insurance_pool
    /\ insurance_claimed = s.insurance_claimed
    /\ sell_orders = s.sell_orders
    /\ orders_by_invoice = s.orders_by_invoice
    /\ bal = s.bal

Init ==
    /\ Stored(Genesis)
    /\ now = StartTime
    /\ burned = [i \in InvoiceIds |-> 0]
    /\ invested = NoPayments
    /\ claimed_out = NoPayments
    /\ TokenIdle
    /\ scenario \in Scenarios

\* The calls the environment makes in the current state, per entry point: the
\* context each returns.  The address a call passes is the caller's own
\* (require_auth): the identity the entry point expects, or another one.
InitializeCalls == {initialize(State, Admin)}

MintDraftCalls ==
    {mint_draft(State, now, Supplier, Buyer, amount, due_date) :
        amount \in Amounts, due_date \in DueDates}

ApproveInvoiceCalls ==
    {approve_invoice(State, now, invoice_id, buyer) :
        invoice_id \in InvoiceIds, buyer \in Callers(Buyer)}

StartAuctionCalls ==
    UNION {{start_auction(State, now, invoice_id, supplier, duration_hours, max_discount_bps) :
                duration_hours \in DurationHours, max_discount_bps \in DiscountBps} :
           invoice_id \in InvoiceIds, supplier \in Callers(Supplier)}

InvestCalls ==
    {invest(State, now, invoice_id, investor, token_amount) :
        invoice_id \in InvoiceIds, investor \in Traders, token_amount \in InvestAmounts}

ClaimInsuranceCalls ==
    {claim_insurance(State, now, invoice_id, investor) :
        invoice_id \in InvoiceIds, investor \in Traders}

CreateSellOrderCalls ==
    UNION {{create_sell_order(State, now, invoice_id, seller, token_amount, price_per_token) :
                token_amount \in OrderAmounts, price_per_token \in OrderPrices} :
           invoice_id \in InvoiceIds, seller \in Traders}

FillOrderCalls ==
    {fill_order(State, now, order_id, buyer, token_amount) :
        order_id \in OrderIds, buyer \in Traders, token_amount \in FillAmounts}

CancelOrderCalls ==
    {cancel_order(State, order_id, seller) : order_id \in OrderIds, seller \in Traders}

TransferTokensCalls ==
    UNION {{transfer_tokens(State, invoice_id, from, to, amount) :
                to \in Traders, amount \in TransferAmounts} :
           invoice_id \in InvoiceIds, from \in Traders}

CheckStatusCalls == {check_status(State, now, invoice_id) : invoice_id \in InvoiceIds}

SettleCalls ==
    {settle(State, now, invoice_id, buyer, payment_amount) :
        invoice_id \in InvoiceIds, buyer \in Callers(Buyer), payment_amount \in PaymentAmounts}

RaiseDisputeCalls ==
    {raise_dispute(State, now, invoice_id, buyer) :
        invoice_id \in InvoiceIds, buyer \in Disputants}

ResolveDisputeCalls ==
    {resolve_dispute(State, now, invoice_id, admin, is_valid) :
        invoice_id \in InvoiceIds, admin \in Callers(Admin), is_valid \in BOOLEAN}

RevokeCalls ==
    {revoke(State, now, invoice_id, supplier) :
        invoice_id \in InvoiceIds, supplier \in Callers(Supplier)}

SetInvestorKycCalls ==
    {set_investor_kyc(State, admin, investor, approved) :
        admin \in Callers(Admin), investor \in KycSubjects, approved \in KycApprovals}

Initialize == \E c \in InitializeCalls : Call(c, FALSE)

MintDraft ==
    /\ generate_invoice_id(invoice_counter) \in InvoiceIds
    /\ \E c \in MintDraftCalls : Call(c, FALSE)

ApproveInvoice == \E c \in ApproveInvoiceCalls : Call(c, FALSE)

StartAuction == \E c \in StartAuctionCalls : Call(c, FALSE)

Invest ==
    \E invoice_id \in InvoiceIds : \E investor \in Traders : \E token_amount \in InvestAmounts :
        LET c == invest(State, now, invoice_id, investor, token_amount)
            payment_amount ==
                IF c.res = "Ok" THEN invest_payment_amount(State, now, invoice_id, token_amount)
                ELSE 0
        IN  Host(c, FALSE, [NoPayments EXCEPT ![invoice_id] = payment_amount], NoPayments)

\* a successful claim withdraws its payout from the pool and marks the
\* (invoice, holder) pair claimed
ClaimInsurance ==
    \E c \in ClaimInsuranceCalls :
        LET post == Commit(State, c)
            actual_payout == insurance_pool - post.insurance_pool
        IN  Host(c, FALSE, NoPayments,
                 [i \in InvoiceIds |->
                     IF \E a \in Addresses :
                            <<i, a>> \in post.insurance_claimed \ insurance_claimed
                     THEN actual_payout ELSE 0])

CreateSellOrder ==
    /\ generate_order_id(order_counter) \in OrderIds
    /\ \E c \in CreateSellOrderCalls : Call(c, FALSE)

FillOrder == \E c \in FillOrderCalls : Call(c, FALSE)

CancelOrder == \E c \in CancelOrderCalls : Call(c, FALSE)

TransferTokens == \E c \in TransferTokensCalls : Call(c, FALSE)

CheckStatus == \E c \in CheckStatusCalls : Call(c, FALSE)

Settle == \E c \in SettleCalls : Call(c, TRUE)

RaiseDispute == \E c \in RaiseDisputeCalls : Call(c, FALSE)

ResolveDispute == \E c \in ResolveDisputeCalls : Call(c, TRUE)

Revoke == \E c \in RevokeCalls : Call(c, TRUE)

SetInvestorKyc == \E c \in SetInvestorKycCalls : Call(c, FALSE)

\* the ledger closes: the timestamp advances; no storage changes
Tick ==
    /\ now + TickSeconds <= StartTime + Ticks * TickSeconds
    /\ now' = now + TickSeconds
    /\ UNCHANGED <<invoice_counter, order_counter, invoices, disputes, holdings,
                   holder_list, kyc, insurance_pool, insurance_claimed, sell_orders,
                   orders_by_invoice, bal, burned, invested, claimed_out, scenario,
                   token_vars>>

Next ==
    \/ Initialize
    \/ MintDraft
    \/ ApproveInvoice
    \/ StartAuction
    \/ Invest
    \/ ClaimInsurance
    \/ CreateSellOrder
    \/ FillOrder
    \/ CancelOrder
    \/ TransferTokens
    \/ CheckStatus
    \/ Settle
    \/ RaiseDispute
    \/ ResolveDispute
    \/ Revoke
    \/ SetInvestorKyc
    \/ Tick

Spec == Init /\ [][Next]_vars

\* check_status is open to every caller: a run in which it is called whenever
\* a call would change a status
SpecLive == Init /\ [][Next]_vars /\ WF_vars(CheckStatus)

\* ------------------------------------------------------------------------
\* The Dutch auction watched half hour by half hour: an invoice of 999 or of
\* 1,000,000 units minted and approved at the start, an approved investor
\* holding 300,000 units of the payment asset, an auction of 2 or 24 hours
\* started on the invoice at some half hour, an investment of 300,000 tokens
\* in it, and the clock running on
\* ------------------------------------------------------------------------
InitPrice ==
    /\ scenario = "auction"
    /\ now = StartTime
    /\ burned = [i \in InvoiceIds |-> 0]
    /\ invested = NoPayments
    /\ claimed_out = NoPayments
    /\ TokenIdle
    /\ \E amount \in Amounts : \E due_date \in DueDates : \E invoice_id \in InvoiceIds :
           LET funded == [Genesis EXCEPT !.bal[Investor] = 300000]
               c1 == mint_draft(funded, now, Supplier, Buyer, amount, due_date)
               c2 == approve_invoice(c1.s, now, invoice_id, Buyer)
               c3 == set_investor_kyc(c2.s, Admin, Investor, TRUE)
           IN  c1.res = "Ok" /\ c2.res = "Ok" /\ c3.res = "Ok" /\ Stored(c3.s)

NextPrice ==
    \/ StartAuction
    \/ Invest
    \/ Tick

SpecPrice == InitPrice /\ [][NextPrice]_vars

\* ------------------------------------------------------------------------
\* The order book: an invoice of 100 units minted and approved, the supplier
\* holding its 100 tokens and the investor approved; holders list lots of 50
\* or 100 tokens at 1 or 2 a token in up to MaxOrders orders, approved buyers
\* fill them lot by lot, sellers cancel, holders transfer lots outside the
\* book, and the administrator grants and withdraws approvals
\* ------------------------------------------------------------------------
InitBook ==
    /\ scenario = "book"
    /\ now = StartTime
    /\ burned = [i \in InvoiceIds |-> 0]
    /\ invested = NoPayments
    /\ claimed_out = NoPayments
    /\ TokenIdle
    /\ \E due_date \in DueDates : \E invoice_id \in InvoiceIds :
           LET c1 == mint_draft(Genesis, now, Supplier, Buyer, FaceAmount, due_date)
               c2 == approve_invoice(c1.s, now, invoice_id, Buyer)
               c3 == set_investor_kyc(c2.s, Admin, Investor, TRUE)
           IN  c1.res = "Ok" /\ c2.res = "Ok" /\ c3.res = "Ok" /\ Stored(c3.s)

NextBook ==
    \/ CreateSellOrder
    \/ FillOrder
    \/ CancelOrder
    \/ TransferTokens
    \/ SetInvestorKyc

SpecBook == InitBook /\ [][NextBook]_vars

\* ------------------------------------------------------------------------
\* The token contract on its own: the admin has minted TokenSupply to the
\* supplier and authorized the supplier and the investor; the supplier
\* approves spenders, who move and burn the supplier's tokens as ledgers close.
\* ------------------------------------------------------------------------
invoice_vars == <<invoice_counter, order_counter, invoices, disputes, holdings,
                  holder_list, kyc, insurance_pool, insurance_claimed, sell_orders,
                  orders_by_invoice, bal, now, burned, invested, claimed_out, scenario>>

InitToken ==
    /\ scenario = "token"
    /\ Stored(Genesis)
    /\ now = StartTime
    /\ burned = [i \in InvoiceIds |-> 0]
    /\ invested = NoPayments
    /\ claimed_out = NoPayments
    /\ sequence = FirstLedger
    /\ granted = NoAllowances
    /\ drawn = NoAllowances
    /\ LET c1 == mint(TokenGenesis, Supplier, TokenSupply)
           c2 == set_authorized(c1.s, Supplier, TRUE)
           c3 == set_authorized(c2.s, Investor, TRUE)
       IN  c1.res = "Ok" /\ token = c3.s

\* one call of the token contract; approved and moved are the amounts the call
\* reports, when it succeeds, as approved to and as moved by spender
TokenHost(c, from, spender, approved, moved) ==
    /\ token' = Commit(token, c)
    /\ granted' = [granted EXCEPT ![<<from, spender>>] = @ + approved]
    /\ drawn' = [drawn EXCEPT ![<<from, spender>>] = @ + moved]
    /\ UNCHANGED <<sequence, invoice_vars>>

Approve ==
    \E amount \in ApproveAmounts : \E from \in TokenOwners : \E spender \in Spenders :
    \E expiration_ledger \in ExpirationLedgers :
        LET c == approve(token, sequence, from, spender, amount, expiration_ledger) IN
        /\ granted[<<from, spender>>] + amount <= MaxGranted
        /\ TokenHost(c, from, spender, IF c.res = "Ok" THEN amount ELSE 0, 0)

TransferFrom ==
    \E amount \in SpendAmounts : \E from \in TokenOwners : \E spender \in Spenders :
    \E to \in Recipients :
        LET c == transfer_from(token, sequence, spender, from, to, amount) IN
        TokenHost(c, from, spender, 0, IF c.res = "Ok" THEN amount ELSE 0)

BurnFrom ==
    \E amount \in SpendAmounts : \E from \in TokenOwners : \E spender \in Spenders :
        LET c == burn_from(token, sequence, spender, from, amount) IN
        TokenHost(c, from, spender, 0, IF c.res = "Ok" THEN amount ELSE 0)

SetAuthorized ==
    \E authorized \in Authorizations : \E addr \in Recipients :
        /\ token' = Commit(token, set_authorized(token, addr, authorized))
        /\ UNCHANGED <<sequence, granted, drawn, invoice_vars>>

\* the ledger closes: the sequence number advances; no storage changes
CloseLedger ==
    /\ sequence < MaxLedgers
    /\ sequence' = sequence + 1
    /\ UNCHANGED <<token, granted, drawn, invoice_vars>>

NextToken ==
    \/ Approve
    \/ TransferFrom
    \/ BurnFrom
    \/ SetAuthorized
    \/ CloseLedger

SpecToken == InitToken /\ [][NextToken]_vars

\* ------------------------------------------------------------------------
\* Properties
\* ------------------------------------------------------------------------
\* the status of an invoice in storage s; "None" while it is not created
StatusOf(s, invoice_id) ==
    IF has_invoice(s, invoice_id) THEN get_invoice(s, invoice_id).status ELSE "None"

\* the amount an address holds of an invoice in storage s; 0 when it has no holding
HeldBy(s, invoice_id, holder) ==
    IF has_token_holding(s, invoice_id, holder)
    THEN get_token_holding(s, invoice_id, holder).amount ELSE 0

\* C1  Token conservation: in every reachable state, for every invoice, the sum of
\* the amounts of its holdings equals total_tokens minus the tokens burned by
\* settle, clawback and revoke; so while nothing is burned, invest,
\* transfer_tokens and fill_order leave the sum equal to total_tokens.
C1_TokenConservation ==
    \A i \in DOMAIN invoices :
        HeldSum(State, i) = invoices[i].total_tokens - burned[i]

\* tokens were sold by invest, moved by fill_order, and then burned
C1_Witness ==
    \E i \in DOMAIN invoices : \E o \in DOMAIN sell_orders :
        /\ invoices[i].tokens_sold > 0
        /\ sell_orders[o].invoice_id = i
        /\ sell_orders[o].status = "Filled"
        /\ burned[i] = invoices[i].total_tokens
        /\ invoices[i].total_tokens > 0

\* C2  In every reachable state, every invoice with total_tokens > 0 has
\* tokens_sold + tokens_remaining = total_tokens and total_tokens = amount, and
\* an invoice in Draft has total_tokens = tokens_sold = tokens_remaining = 0.
C2_SoldPlusRemaining ==
    \A i \in DOMAIN invoices :
        LET invoice == invoices[i] IN
        /\ invoice.total_tokens > 0 =>
               /\ invoice.tokens_sold + invoice.tokens_remaining = invoice.total_tokens
               /\ invoice.total_tokens = invoice.amount
        /\ invoice.status = "Draft" =>
               /\ invoice.total_tokens = 0
               /\ invoice.tokens_sold = 0
               /\ invoice.tokens_remaining = 0

\* an invoice of which a part is sold and a part remains
C2_Witness ==
    \E i \in DOMAIN invoices :
        /\ invoices[i].tokens_sold > 0
        /\ invoices[i].tokens_remaining > 0
        /\ invoices[i].status = "Funding"

\* C3 as stated: once an invest has succeeded, and before any settlement, clawback
\* or revocation, the sum of the holdings' amounts equals tokens_sold.
C3_SumEqualsSold ==
    \A i \in DOMAIN invoices :
        (invoices[i].tokens_sold > 0 /\ burned[i] = 0) =>
            HeldSum(State, i) = invoices[i].tokens_sold

\* C3  Once an invest has succeeded, and before any settlement, clawback or
\* revocation, the sum of the holdings' amounts equals total_tokens, the unsold
\* part staying among the holdings: it is tokens_sold plus tokens_remaining, and
\* equals tokens_sold only when nothing remains.  Immediately after
\* approve_invoice the sum equals total_tokens, all of it held by the supplier.
C3_SumEqualsTotal ==
    /\ \A i \in DOMAIN invoices :
           (invoices[i].tokens_sold > 0 /\ burned[i] = 0) =>
               /\ HeldSum(State, i) = invoices[i].total_tokens
               /\ HeldSum(State, i) = invoices[i].tokens_sold + invoices[i].tokens_remaining
               /\ (HeldSum(State, i) = invoices[i].tokens_sold
                      <=> invoices[i].tokens_remaining = 0)
    /\ \A i \in InvoiceIds : \A buyer \in Callers(Buyer) :
           LET c == approve_invoice(State, now, i, buyer) IN
           c.res = "Ok" =>
               /\ get_invoice(c.s, i).total_tokens > 0
               /\ HeldSum(c.s, i) = get_invoice(c.s, i).total_tokens
               /\ HeldBy(c.s, i, get_invoice(c.s, i).supplier) = get_invoice(c.s, i).total_tokens

\* after a partial investment the supplier still holds the unsold tokens
C3_Witness ==
    \E i \in DOMAIN invoices :
        /\ invoices[i].tokens_sold > 0
        /\ invoices[i].tokens_remaining > 0
        /\ burned[i] = 0
        /\ HeldBy(State, i, invoices[i].supplier) > 0
        /\ HeldSum(State, i) > invoices[i].tokens_sold

\* the change of status a call returning context c makes to an invoice: none, or an
\* edge of edges
StatusEdge(c, invoice_id, edges) ==
    LET before == StatusOf(State, invoice_id)
        after == StatusOf(Commit(State, c), invoice_id)
    IN  before = after \/ <<before, after>> \in edges

Unsettled == {"Verified", "Funding", "Funded", "Overdue"}

\* C4  Every change of an invoice's status made by an operation is one of these
\* edges: Draft->Verified (approve_invoice); Draft->Revoked, Verified->Revoked
\* (revoke); Verified->Funding (start_auction); Verified->Funded, Funding->Funded
\* (invest); Verified|Funding|Funded->Overdue and
\* Verified|Funding|Funded|Overdue->Defaulted (check_status);
\* Verified|Funding|Funded|Overdue->Settled (settle);
\* Verified|Funding|Funded|Overdue->Disputed (raise_dispute); Disputed->Funded
\* (resolve_dispute with is_valid = false).  mint_draft creates the invoice in
\* Draft; no other operation changes a status.
C4_StatusEdges ==
    \A i \in InvoiceIds :
        /\ \A c \in MintDraftCalls : StatusEdge(c, i, {<<"None", "Draft">>})
        /\ \A c \in ApproveInvoiceCalls : StatusEdge(c, i, {<<"Draft", "Verified">>})
        /\ \A c \in RevokeCalls :
               StatusEdge(c, i, {<<"Draft", "Revoked">>, <<"Verified", "Revoked">>})
        /\ \A c \in StartAuctionCalls : StatusEdge(c, i, {<<"Verified", "Funding">>})
        /\ \A c \in InvestCalls :
               StatusEdge(c, i, {<<"Verified", "Funded">>, <<"Funding", "Funded">>})
        /\ \A c \in CheckStatusCalls :
               StatusEdge(c, i, ({"Verified", "Funding", "Funded"} \X {"Overdue"})
                                   \cup (Unsettled \X {"Defaulted"}))
        /\ \A c \in SettleCalls : StatusEdge(c, i, Unsettled \X {"Settled"})
        /\ \A c \in RaiseDisputeCalls : StatusEdge(c, i, Unsettled \X {"Disputed"})
        /\ \A admin \in Callers(Admin) :
               /\ StatusEdge(resolve_dispute(State, now, i, admin, FALSE), i,
                             {<<"Disputed", "Funded">>})
               /\ StatusEdge(resolve_dispute(State, now, i, admin, TRUE), i, {})
        /\ \A c \in InitializeCalls \cup ClaimInsuranceCalls \cup CreateSellOrderCalls
                     \cup FillOrderCalls \cup CancelOrderCalls \cup TransferTokensCalls
                     \cup SetInvestorKycCalls :
               StatusEdge(c, i, {})

\* an overdue invoice was disputed and the dispute was rejected: it is Funded
\* again, past its due date
C4_Witness ==
    \E i \in DOMAIN invoices :
        /\ invoices[i].status = "Funded"
        /\ has_dispute(State, i)
        /\ disputes[i].resolution = "Invalid"
        /\ now > invoices[i].due_date

Terminal == {"Settled", "Defaulted", "Revoked"}

\* C5  Settled, Defaulted and Revoked are terminal: once an invoice has one of
\* these statuses, no step changes its status.
C5_TerminalStatuses ==
    [][\A i \in DOMAIN invoices :
          invoices[i].status \in Terminal =>
              (i \in DOMAIN invoices' /\ invoices'[i].status = invoices[i].status)]_vars

\* a defaulted invoice on which insurance has since been claimed
C5_Witness ==
    \E i \in DOMAIN invoices :
        /\ invoices[i].status = "Defaulted"
        /\ \E a \in Addresses : is_insurance_claimed(State, i, a)

\* C6 as stated: after a successful settle the status is Settled, and every later
\* settle call on the invoice fails with InvalidStatus and changes nothing.
C6_EveryLaterSettleInvalidStatus ==
    \A i \in InvoiceIds : \A buyer \in Callers(Buyer) : \A payment_amount \in PaymentAmounts :
        LET c == settle(State, now, i, buyer, payment_amount) IN
        /\ c.res = "Ok" => StatusOf(c.s, i) = "Settled"
        /\ StatusOf(State, i) = "Settled" =>
               (c.res = "InvalidStatus" /\ Commit(State, c) = State)

\* C6  settle succeeds at most once per invoice: a successful settle leaves the
\* status Settled, and every later settle call on the invoice fails and changes
\* no state and moves no funds: with InvalidStatus when the caller is the
\* invoice's buyer, with Unauthorized when it is anyone else.
C6_SettleOnce ==
    \A i \in InvoiceIds : \A buyer \in Callers(Buyer) : \A payment_amount \in PaymentAmounts :
        LET c == settle(State, now, i, buyer, payment_amount) IN
        /\ c.res = "Ok" => StatusOf(c.s, i) = "Settled"
        /\ StatusOf(State, i) = "Settled" =>
               /\ c.res = IF buyer = get_invoice(State, i).buyer
                          THEN "InvalidStatus" ELSE "Unauthorized"
               /\ Commit(State, c) = State

\* a settled invoice whose buyer could pay once more
C6_Witness ==
    \E i \in DOMAIN invoices :
        /\ invoices[i].status = "Settled"
        /\ invoices[i].repayment_received \in PaymentAmounts
        /\ bal[invoices[i].buyer] >= invoices[i].repayment_received

RECURSIVE Total(_, _)
Total(f, keys) ==
    IF keys = {} THEN 0
    ELSE LET k == CHOOSE x \in keys : TRUE IN f[k] + Total(f, keys \ {k})

\* floor(a * P / T), for T > 0
FloorShare(a, P, T) == (a * P) \div T

\* C7  On a successful settle with payment P on an invoice whose holders have
\* amounts a_1..a_n and total_tokens T, each holder i is paid exactly
\* floor(a_i * P / T), every holding of the invoice is deleted, and the sum of
\* the payouts is at most P, the remainder staying in the contract's balance.
C7_ProRataSettlement ==
    \A i \in InvoiceIds : \A buyer \in Callers(Buyer) : \A P \in PaymentAmounts :
        LET c == settle(State, now, i, buyer, P) IN
        c.res = "Ok" =>
            LET T == get_invoice(State, i).total_tokens
                payout == [a \in Accounts |->
                              IF has_token_holding(State, i, a)
                              THEN FloorShare(HeldBy(State, i, a), P, T) ELSE 0]
                paid == Total(payout, Accounts)
                paid_in == [a \in Accounts |-> IF a = ContractAddress THEN P ELSE 0]
                paid_out == [a \in Accounts |->
                                (IF a = buyer THEN P ELSE 0)
                                + (IF a = ContractAddress THEN paid ELSE 0)]
            IN  /\ \A a \in Accounts :
                       c.s.bal[a] = bal[a] + payout[a] + paid_in[a] - paid_out[a]
                /\ \A a \in Accounts : ~has_token_holding(c.s, i, a)
                /\ get_all_holders(c.s, i) = <<>>
                /\ paid <= P
                /\ c.s.bal[ContractAddress] - bal[ContractAddress] = P - paid
                /\ P - paid >= 0

\* a settled invoice whose payment did not divide among its holders: the
\* remainder is in the contract's balance, above the insurance pool
C7_Witness ==
    \E i \in DOMAIN invoices :
        /\ invoices[i].status = "Settled"
        /\ burned[i] = invoices[i].total_tokens
        /\ bal[ContractAddress] > insurance_pool

\* the case of C8: a KYC-approved investor, an invoice in Verified or Funding,
\* token_amount within tokens_remaining, and the supplier's holding absent or
\* smaller than token_amount
InvestShortOfTokens(i, investor, token_amount) ==
    /\ get_kyc_status(State, investor)
    /\ has_invoice(State, i)
    /\ get_invoice(State, i).status \in {"Verified", "Funding"}
    /\ token_amount <= get_invoice(State, i).tokens_remaining
    /\ \/ ~has_token_holding(State, i, get_invoice(State, i).supplier)
       \/ HeldBy(State, i, get_invoice(State, i).supplier) < token_amount

\* what C8 says a failed invest leaves unchanged
InvestLeftNothing(c, i, investor) ==
    LET post == Commit(State, c)
        supplier == get_invoice(State, i).supplier
    IN  /\ post.bal[investor] = bal[investor]
        /\ post.bal[supplier] = bal[supplier]
        /\ post.bal[ContractAddress] = bal[ContractAddress]
        /\ post.insurance_pool = insurance_pool
        /\ post.holdings = holdings
        /\ post.holder_list = holder_list
        /\ post.invoices = invoices

\* the payment invest asks for token_amount tokens of invoice i
InvestPayment(i, token_amount) ==
    LET invoice == get_invoice(State, i)
        price == IF invoice.auction_start > 0 THEN current_price(invoice, now)
                 ELSE invoice.amount
    IN  RustDiv(token_amount * price, invoice.total_tokens)

C9_RuledOnce ==
    \A i \in DOMAIN disputes :
        disputes[i].resolution \in {"Valid", "Invalid"} =>
            \A admin \in Callers(Admin) : \A is_valid \in BOOLEAN :
                LET c == resolve_dispute(State, now, i, admin, is_valid) IN
                /\ c.res # "Ok"
                /\ get_dispute(Commit(State, c), i).resolution = disputes[i].resolution
                /\ get_dispute(Commit(State, c), i).resolved_at = disputes[i].resolved_at

\* C10  After resolve_dispute with is_valid = true the invoice stays frozen: its
\* status is Disputed in every later state.
C10_ValidStaysDisputed ==
    [][\A i \in DOMAIN disputes :
          (disputes[i].resolution = "Valid" /\ invoices[i].status = "Disputed") =>
              invoices'[i].status = "Disputed"]_vars

\* the holdings of an invoice in storage s
HoldingsOf(s, invoice_id) ==
    [k \in {h \in DOMAIN s.holdings : h[1] = invoice_id} |-> s.holdings[k]]

\* C11  resolve_dispute with is_valid = true removes every holding of the invoice
\* (its holder list becomes empty), transfers no payment asset and leaves the
\* insurance pool and the insurance-claimed flags unchanged.
C11_ClawbackFrame ==
    \A i \in InvoiceIds : \A admin \in Callers(Admin) :
        LET c == resolve_dispute(State, now, i, admin, TRUE) IN
        c.res = "Ok" =>
            /\ HoldingsOf(c.s, i) = <<>>
            /\ get_all_holders(c.s, i) = <<>>
            /\ c.s.bal = bal
            /\ c.s.insurance_pool = insurance_pool
            /\ c.s.insurance_claimed = insurance_claimed

\* a dispute was upheld on an invoice with two holders and a funded pool: the
\* holdings are gone, the pool is as it was
C11_Witness ==
    \E i \in DOMAIN disputes :
        /\ disputes[i].resolution = "Valid"
        /\ invoices[i].status = "Disputed"
        /\ invoices[i].tokens_sold > 0
        /\ invoices[i].tokens_remaining > 0
        /\ burned[i] = invoices[i].total_tokens
        /\ HoldingsOf(State, i) = <<>>
        /\ insurance_pool > 0

\* C12  resolve_dispute with is_valid = false on a Disputed invoice, called by
\* the admin, records the resolution Invalid, sets the status to Funded whatever
\* the status was before the dispute, and leaves every holding unchanged; called
\* by a non-admin it fails with Unauthorized and changes nothing.
C12_InvalidRuling ==
    \A i \in InvoiceIds : \A admin \in Callers(Admin) :
        LET c == resolve_dispute(State, now, i, admin, FALSE) IN
        /\ (admin = Admin /\ StatusOf(State, i) = "Disputed") =>
               /\ c.res = "Ok"
               /\ get_dispute(c.s, i).resolution = "Invalid"
               /\ StatusOf(c.s, i) = "Funded"
               /\ c.s.holdings = holdings
               /\ c.s.holder_list = holder_list
        /\ admin # Admin =>
               /\ c.res = "Unauthorized"
               /\ Commit(State, c) = State

\* a dispute raised before any token was sold was rejected: the invoice is
\* Funded with all its tokens remaining
C12_Witness ==
    \E i \in DOMAIN disputes :
        /\ disputes[i].resolution = "Invalid"
        /\ invoices[i].status = "Funded"
        /\ invoices[i].tokens_remaining = invoices[i].total_tokens
        /\ HeldSum(State, i) = invoices[i].total_tokens

\* C13  raise_dispute by the invoice's buyer on an invoice in Verified, Funding,
\* Funded or Overdue creates a Pending dispute and sets the status Disputed;
\* while the status is Disputed every settle call is rejected and moves no funds;
\* raise_dispute by any other caller fails with Unauthorized, and by the buyer
\* in any other status with InvalidStatus.
C13_RaiseDispute ==
    \A i \in DOMAIN invoices :
        /\ \A buyer \in Callers(Buyer) \cup Disputants :
               LET c == raise_dispute(State, now, i, buyer) IN
               /\ (buyer = invoices[i].buyer /\ invoices[i].status \in Unsettled) =>
                      /\ c.res = "Ok"
                      /\ has_dispute(c.s, i)
                      /\ get_dispute(c.s, i).resolution = "Pending"
                      /\ StatusOf(c.s, i) = "Disputed"
               /\ buyer # invoices[i].buyer =>
                      (c.res = "Unauthorized" /\ Commit(State, c) = State)
               /\ (buyer = invoices[i].buyer /\ invoices[i].status \notin Unsettled) =>
                      (c.res = "InvalidStatus" /\ Commit(State, c) = State)
        /\ invoices[i].status = "Disputed" =>
               \A buyer \in Callers(Buyer) : \A payment_amount \in PaymentAmounts :
                   LET c == settle(State, now, i, buyer, payment_amount) IN
                   /\ c.res # "Ok"
                   /\ Commit(State, c).bal = bal
                   /\ Commit(State, c) = State

\* a funded invoice under a pending dispute, whose buyer could pay
C13_Witness ==
    \E i \in DOMAIN disputes :
        /\ disputes[i].resolution = "Pending"
        /\ invoices[i].status = "Disputed"
        /\ invoices[i].tokens_remaining = 0
        /\ \E payment_amount \in PaymentAmounts :
               /\ payment_amount >= calculate_settlement_amount(invoices[i], now)
               /\ bal[invoices[i].buyer] >= payment_amount

\* C15  A successful claim_insurance pays the holder exactly
\* min(acquired_price / 2, pool balance) from the contract's account, debits the
\* pool by that amount and sets the claimed flag; any later claim_insurance by
\* the same holder on the same invoice fails with AlreadyClaimed and pays nothing.
C15_InsuranceClaim ==
    \A i \in InvoiceIds : \A investor \in Traders :
        LET c == claim_insurance(State, now, i, investor)
            payout == Min(RustDiv(get_token_holding(State, i, investor).acquired_price, 2),
                          insurance_pool)
        IN  /\ c.res = "Ok" =>
                   /\ c.s.bal[investor] = bal[investor] + payout
                   /\ c.s.bal[ContractAddress] = bal[ContractAddress] - payout
                   /\ \A a \in Accounts \ {investor, ContractAddress} : c.s.bal[a] = bal[a]
                   /\ c.s.insurance_pool = insurance_pool - payout
                   /\ is_insurance_claimed(c.s, i, investor)
            /\ is_insurance_claimed(State, i, investor) =>
                   /\ c.res = "AlreadyClaimed"
                   /\ Commit(State, c) = State
                   /\ Commit(State, c).bal = bal

\* a holder was paid half of the acquired price out of a pool that held more,
\* and still holds the tokens
C15_Witness ==
    \E i \in DOMAIN invoices :
        /\ invoices[i].status = "Defaulted"
        /\ is_insurance_claimed(State, i, Investor)
        /\ has_token_holding(State, i, Investor)
        /\ insurance_pool > 0
        /\ bal[ContractAddress] = insurance_pool

\* the ledger times at which an invoice's stored state can be met: the present,
\* and the instants around its due date and the end of its grace period that
\* are still to come
ProbeTimes(invoice) ==
    {now} \cup {t \in {invoice.due_date, invoice.due_date + 1,
                       invoice.due_date + grace_period_days * SECONDS_PER_DAY,
                       invoice.due_date + grace_period_days * SECONDS_PER_DAY + 1} : t >= now}

\* C16  check_status on an invoice in Verified, Funding, Funded or Overdue sets
\* and returns Defaulted when now > due_date + grace_period_days * 86400, sets
\* and returns Overdue when due_date < now <= due_date + grace, and otherwise
\* changes nothing; on an invoice in Draft, Settled, Defaulted, Disputed or
\* Revoked it changes nothing and returns the current status.
C16_CheckStatus ==
    \A i \in DOMAIN invoices : \A t \in ProbeTimes(invoices[i]) :
        LET invoice == invoices[i]
            grace == grace_period_days * 86400
            c == check_status(State, t, i)
            expected ==
                IF invoice.status \in {"Verified", "Funding", "Funded", "Overdue"}
                THEN IF t > invoice.due_date + grace THEN "Defaulted"
                     ELSE IF invoice.due_date < t THEN "Overdue"
                     ELSE invoice.status
                ELSE invoice.status
        IN  /\ c.res = "Ok"
            /\ check_status_value(State, t, i) = expected
            /\ c.s = [State EXCEPT !.invoices[i].status = expected]
            /\ expected = invoice.status => c.s = State

\* an invoice found overdue within its grace period, with tokens still unsold
C16_Witness ==
    \E i \in DOMAIN invoices :
        /\ invoices[i].status = "Overdue"
        /\ invoices[i].due_date < now
        /\ now <= invoices[i].due_date + grace_period_days * SECONDS_PER_DAY
        /\ invoices[i].tokens_sold > 0
        /\ invoices[i].tokens_remaining > 0

\* C17  check_status is idempotent: called twice in a row on the same invoice
\* at the same ledger time it returns the same status both times, and the
\* second call changes no state.
C17_CheckStatusIdempotent ==
    \A i \in InvoiceIds :
      \A t \in IF i \in DOMAIN invoices THEN ProbeTimes(invoices[i]) ELSE {now} :
        LET c1 == check_status(State, t, i)
            c2 == check_status(c1.s, t, i)
        IN  /\ c2.res = c1.res
            /\ c2.s = c1.s
            /\ c1.res = "Ok" =>
                   /\ check_status_value(c1.s, t, i) = check_status_value(State, t, i)
                   /\ check_status_value(c1.s, t, i) = StatusOf(c1.s, i)

\* a fully funded invoice found in default after its grace period, unclaimed
C17_Witness ==
    \E i \in DOMAIN invoices :
        /\ invoices[i].status = "Defaulted"
        /\ now > invoices[i].due_date + grace_period_days * SECONDS_PER_DAY
        /\ invoices[i].tokens_remaining = 0
        /\ insurance_claimed = {}

\* the calls of every entry point but check_status
CallsButCheckStatus ==
    InitializeCalls \cup MintDraftCalls \cup ApproveInvoiceCalls \cup StartAuctionCalls
        \cup InvestCalls \cup ClaimInsuranceCalls \cup CreateSellOrderCalls
        \cup FillOrderCalls \cup CancelOrderCalls \cup TransferTokensCalls
        \cup SettleCalls \cup RaiseDisputeCalls \cup ResolveDisputeCalls
        \cup RevokeCalls \cup SetInvestorKycCalls

Late == {"Overdue", "Defaulted"}

\* C18  check_status is the only operation that ever sets an invoice's status
\* to Overdue or Defaulted: no call of another entry point leaves an invoice
\* Overdue or Defaulted that was not so before, a step in which the ledger time
\* advances changes no stored invoice, and every step in which an invoice
\* becomes Overdue or Defaulted is the effect of a check_status call.
C18_OnlyCheckStatus ==
    /\ [](\A c \in CallsButCheckStatus :
            LET after == Commit(State, c).invoices IN
            \A i \in DOMAIN after :
                after[i].status \in Late =>
                    (i \in DOMAIN invoices /\ invoices[i].status = after[i].status))
    /\ [][/\ now' # now => invoices' = invoices
          /\ \A i \in DOMAIN invoices' :
                (/\ invoices'[i].status \in Late
                 /\ (i \in DOMAIN invoices => invoices[i].status # invoices'[i].status))
                    => /\ now' = now
                       /\ \E c \in CheckStatusCalls :
                              c.res = "Ok" /\ c.s.invoices = invoices']_vars

\* an invoice in default on which no token was ever sold: the clock and
\* check_status alone took it there
C18_Witness ==
    \E i \in DOMAIN invoices :
        /\ invoices[i].status = "Defaulted"
        /\ invoices[i].tokens_sold = 0
        /\ invoices[i].auction_start = 0
        /\ now > invoices[i].due_date + grace_period_days * SECONDS_PER_DAY

\* the payments offered to settle in the checks below: around the face amount
\* and the interest that can accrue on it
SettlementOffers == (FaceAmount - 1) .. (FaceAmount + 6)

\* C19  settle requires payment_amount >= amount + floor(amount * rate * days /
\* (10000 * 365)), where days = floor((now - created_at) / 86400) and rate is the
\* penalty rate when now > due_date and the base rate otherwise; a smaller
\* payment fails with InsufficientPayment and changes nothing, a caller other
\* than the invoice's buyer fails with Unauthorized, and on success the whole
\* payment_amount is pulled from the buyer and repayment_received is set to it.
C19_SettlementAmount ==
    \A i \in DOMAIN invoices : \A t \in ProbeTimes(invoices[i]) :
      \A buyer \in Callers(Buyer) : \A payment_amount \in SettlementOffers :
        LET invoice == invoices[i]
            days == (t - invoice.created_at) \div 86400
            rate == IF t > invoice.due_date THEN penalty_rate ELSE base_interest_rate
            required == invoice.amount + ((invoice.amount * rate * days) \div (10000 * 365))
            c == settle(State, t, i, buyer, payment_amount)
        IN  /\ c.res = "Ok" =>
                   /\ payment_amount >= required
                   /\ buyer = invoice.buyer
                   /\ c.s.bal[buyer] = bal[buyer] - payment_amount
                   /\ get_invoice(c.s, i).repayment_received = payment_amount
            /\ (buyer = invoice.buyer /\ invoice.status \in Unsettled
                    /\ payment_amount < required) =>
                   (c.res = "InsufficientPayment" /\ Commit(State, c) = State)
            /\ buyer # invoice.buyer =>
                   (c.res = "Unauthorized" /\ Commit(State, c) = State)

\* an invoice settled before its due date, fifty days after it was created,
\* for more than the amount and the interest at the base rate then due
C19_Witness ==
    \E i \in DOMAIN invoices :
        /\ invoices[i].status = "Settled"
        /\ now <= invoices[i].due_date
        /\ (now - invoices[i].created_at) \div SECONDS_PER_DAY = 50
        /\ calculate_settlement_amount(invoices[i], now) = invoices[i].amount + 1
        /\ invoices[i].repayment_received = invoices[i].amount + 3
        /\ bal[invoices[i].buyer] = InitialBalance[invoices[i].buyer] - (invoices[i].amount + 3)

\* the instants from now on at which the price of an invoice's auction is
\* asked: every half hour since its start, and the instants around its end
PriceTimes(invoice) ==
    {t \in {invoice.auction_start + k * (SECONDS_PER_HOUR \div 2) : k \in 0..MaxHalfHours}
            \cup {invoice.auction_end - 1, invoice.auction_end, invoice.auction_end + 1} :
        t >= now}

\* C14  For an invoice on which an auction was started, get_current_price is
\* non-increasing as the ledger time advances, and is never below min_price and
\* never above start_price.
C14_PriceMonotone ==
    /\ [](\A i \in DOMAIN invoices :
            invoices[i].auction_start > 0 =>
                \A t \in PriceTimes(invoices[i]) :
                    LET at_now == get_current_price(State, now, i)
                        later == get_current_price(State, t, i)
                    IN  /\ at_now.res = "Ok" /\ later.res = "Ok"
                        /\ later.price <= at_now.price
                        /\ later.price >= invoices[i].min_price
                        /\ later.price <= invoices[i].start_price)
    /\ [][\A i \in DOMAIN invoices :
            (invoices[i].auction_start > 0 /\ i \in DOMAIN invoices'
                /\ invoices'[i].auction_start > 0) =>
                get_current_price(State', now', i).price
                    <= get_current_price(State, now, i).price]_vars

\* an auction under way whose price has fallen below the start price and is
\* still above the minimum
C14_Witness ==
    \E i \in DOMAIN invoices :
        /\ invoices[i].auction_start > 0
        /\ now > invoices[i].auction_start
        /\ now < invoices[i].auction_end
        /\ get_current_price(State, now, i).price < invoices[i].start_price
        /\ get_current_price(State, now, i).price > invoices[i].min_price

\* get_current_price and start_auction as C20 describes them, with the price of
\* the example (1,000,000 units, 1000 bps, 24 hours, asked after 10 hours)
PriceAsDescribed(example_price) ==
    /\ \A i \in DOMAIN invoices :
         \A t \in IF invoices[i].auction_start > 0 THEN PriceTimes(invoices[i]) \cup {now}
                  ELSE {now} :
            LET invoice == invoices[i]
                price == get_current_price(State, t, i)
            IN  IF invoice.auction_start = 0 THEN price.res = "AuctionNotStarted"
                ELSE /\ price.res = "Ok"
                     /\ price.price =
                            IF t >= invoice.auction_end THEN invoice.min_price
                            ELSE Max(invoice.start_price
                                        - ((invoice.start_price * invoice.price_drop_rate
                                               * ((t - invoice.auction_start) \div 3600))
                                              \div 10000),
                                     invoice.min_price)
    /\ \A i \in DOMAIN invoices : \A supplier \in Callers(Supplier) :
         \A duration_hours \in DurationHours : \A max_discount_bps \in DiscountBps :
            LET c == start_auction(State, now, i, supplier, duration_hours, max_discount_bps)
                amount == invoices[i].amount
            IN  c.res = "Ok" =>
                    /\ get_invoice(c.s, i).start_price = amount
                    /\ get_invoice(c.s, i).min_price
                           = amount - ((amount * max_discount_bps) \div 10000)
    /\ \A i \in DOMAIN invoices :
            LET c == start_auction(State, now, i, invoices[i].supplier, 24, 1000) IN
            (invoices[i].amount = 1000000 /\ c.res = "Ok") =>
                /\ get_invoice(c.s, i).start_price = 1000000
                /\ get_invoice(c.s, i).min_price = 900000
                /\ get_invoice(c.s, i).price_drop_rate = 50
                /\ get_current_price(c.s, now + 10 * 3600, i).price = example_price

\* C20 as stated: get_current_price returns AuctionNotStarted when no auction
\* was started; otherwise min_price when now >= auction_end, and
\* max(start_price - floor(start_price * price_drop_rate
\*     * floor((now - auction_start) / 3600) / 10000), min_price) before that;
\* start_auction stored start_price = amount and
\* min_price = amount - floor(amount * max_discount_bps / 10000); and amount
\* 1,000,000 with 1000 bps and 50 bps per hour gives 995,000 after 10 hours,
\* with floor 900,000.
C20_PriceExample995 == PriceAsDescribed(995000)

\* C20  The same, with the price the formula gives for the example:
\* 1,000,000 - floor(1,000,000 * 50 * 10 / 10000) = 950,000 after 10 hours.
C20_CurrentPrice == PriceAsDescribed(950000)

\* the auction of the example, ten hours after its start
C20_Witness ==
    \E i \in DOMAIN invoices :
        /\ invoices[i].amount = 1000000
        /\ invoices[i].start_price = 1000000
        /\ invoices[i].min_price = 900000
        /\ invoices[i].price_drop_rate = 50
        /\ invoices[i].auction_end = invoices[i].auction_start + 24 * SECONDS_PER_HOUR
        /\ now = invoices[i].auction_start + 10 * SECONDS_PER_HOUR
        /\ get_current_price(State, now, i) = [res |-> "Ok", price |-> 950000]

\* token amounts offered to invest in the checks below, besides those of the runs
InvestOffers == {-1, 0, 1, 7, 300}

\* C21 as stated: on every successful invest, payment = floor(token_amount * price /
\* total_tokens), with price the current auction price if an auction was
\* started and the face amount otherwise; the investor is charged payment, the
\* insurance pool grows by exactly floor(payment * insurance_cut_bps / 10000),
\* and the supplier receives payment minus that cut; 300,000 tokens at price
\* 995,000 of 1,000,000 with 500 bps give 298,500, 14,925 and 283,575.
C21_InvestPayment ==
    \A i \in DOMAIN invoices : \A investor \in Traders \ {invoices[i].supplier} :
        LET invoice == invoices[i]
            supplier == invoice.supplier
            price == IF invoice.auction_start > 0
                     THEN get_current_price(State, now, i).price
                     ELSE invoice.amount
        IN  /\ \A token_amount \in InvestOffers :
                   LET payment == (token_amount * price) \div invoice.total_tokens
                       cut == (payment * InsuranceCut) \div 10000
                       c == invest(State, now, i, investor, token_amount)
                   IN  c.res = "Ok" =>
                           /\ c.s.bal[investor] = bal[investor] - payment
                           /\ c.s.insurance_pool = insurance_pool + cut
                           /\ c.s.bal[ContractAddress] = bal[ContractAddress] + cut
                           /\ c.s.bal[supplier] = bal[supplier] + (payment - cut)
            /\ LET c == invest(State, now, i, investor, 300000) IN
               (/\ c.res = "Ok" /\ invoice.total_tokens = 1000000
                /\ price = 995000 /\ InsuranceCut = 500) =>
                   /\ c.s.bal[investor] = bal[investor] - 298500
                   /\ c.s.insurance_pool = insurance_pool + 14925
                   /\ c.s.bal[supplier] = bal[supplier] + 283575

\* the amount a holder holds of an invoice in storage s, 0 without a holding
AmountHeld(s, invoice_id, holder) ==
    IF has_token_holding(s, invoice_id, holder)
    THEN get_token_holding(s, invoice_id, holder).amount ELSE 0

\* what C22 says of invest, for the given investors
InvestAsDescribed(investors) ==
    \A i \in DOMAIN invoices : \A investor \in investors \ {invoices[i].supplier} :
      \A token_amount \in InvestAmounts \cup InvestOffers :
        LET invoice == invoices[i]
            supplier == invoice.supplier
            c == invest(State, now, i, investor, token_amount)
            after == get_invoice(c.s, i)
        IN  /\ c.res = "Ok" =>
                   /\ AmountHeld(c.s, i, supplier) = AmountHeld(State, i, supplier) - token_amount
                   /\ AmountHeld(c.s, i, investor) = AmountHeld(State, i, investor) + token_amount
                   /\ has_token_holding(c.s, i, investor)
                   /\ get_token_holding(c.s, i, investor).acquired_price
                          = (IF has_token_holding(State, i, investor)
                             THEN get_token_holding(State, i, investor).acquired_price ELSE 0)
                            + (bal[investor] - c.s.bal[investor])
                   /\ \A k \in (DOMAIN holdings \cup DOMAIN c.s.holdings)
                                \ {<<i, supplier>>, <<i, investor>>} :
                          k \in DOMAIN holdings /\ k \in DOMAIN c.s.holdings
                              /\ c.s.holdings[k] = holdings[k]
                   /\ after.tokens_sold = invoice.tokens_sold + token_amount
                   /\ after.tokens_remaining = invoice.tokens_remaining - token_amount
                   /\ after.status = IF after.tokens_remaining = 0 THEN "Funded"
                                     ELSE invoice.status
            /\ invoice.status \notin {"Verified", "Funding"} =>
                   (c.res = "InvalidStatus" /\ Commit(State, c) = State)
            /\ (invoice.status \in {"Verified", "Funding"}
                    /\ token_amount > invoice.tokens_remaining) =>
                   (c.res = "InsufficientTokens" /\ Commit(State, c) = State)

C23_KycGating ==
    /\ \A a \in Addresses : ~get_kyc_status(State, a)
    /\ [](/\ \A admin \in Callers(Admin) : \A investor \in Addresses : \A approved \in BOOLEAN :
               LET c == set_investor_kyc(State, admin, investor, approved) IN
               IF admin = Admin
               THEN /\ c.res = "Ok"
                    /\ c.s = [State EXCEPT !.kyc[investor] = approved]
               ELSE c.res = "Unauthorized" /\ Commit(State, c) = State
          /\ \A a \in {a \in Traders : ~get_kyc_status(State, a)} :
               /\ \A i \in InvoiceIds : \A token_amount \in InvestAmounts \cup InvestOffers :
                      LET c == invest(State, now, i, a, token_amount) IN
                      c.res = "KYCRequired" /\ Commit(State, c) = State
               /\ \A o \in OrderIds : \A token_amount \in FillAmounts :
                      LET c == fill_order(State, now, o, a, token_amount) IN
                      c.res = "KYCRequired" /\ Commit(State, c) = State)
    /\ [][\A a \in Addresses :
            kyc'[a] # kyc[a] =>
                LET c == set_investor_kyc(State, Admin, a, kyc'[a]) IN
                c.res = "Ok" /\ c.s.kyc = kyc']_vars

\* an investor whose approval was withdrawn after an investment
C23_Witness ==
    /\ ~get_kyc_status(State, Investor)
    /\ \E i \in DOMAIN invoices :
           /\ has_token_holding(State, i, Investor)
           /\ invoices[i].status \in {"Verified", "Funding"}
           /\ invoices[i].tokens_remaining > 0

\* C24  approve_invoice succeeds only when the invoice is in Draft and the
\* caller is the invoice's buyer; it then sets status Verified, total_tokens =
\* tokens_remaining = amount, tokens_sold = 0, and creates exactly one holding,
\* the supplier's, equal to the full mint; a caller other than the buyer fails
\* with Unauthorized, and the buyer on a non-Draft invoice with InvalidStatus,
\* both leaving state unchanged.
C24_ApproveInvoice ==
    \A i \in DOMAIN invoices : \A buyer \in Callers(Buyer) :
        LET invoice == invoices[i]
            c == approve_invoice(State, now, i, buyer)
            after == get_invoice(c.s, i)
        IN  /\ c.res = "Ok" <=> (invoice.status = "Draft" /\ buyer = invoice.buyer)
            /\ c.res = "Ok" =>
                   /\ after.status = "Verified"
                   /\ after.total_tokens = invoice.amount
                   /\ after.tokens_remaining = invoice.amount
                   /\ after.tokens_sold = 0
                   /\ HoldingsOf(State, i) = <<>>
                   /\ DOMAIN HoldingsOf(c.s, i) = {<<i, invoice.supplier>>}
                   /\ get_token_holding(c.s, i, invoice.supplier).amount = invoice.amount
                   /\ get_all_holders(c.s, i) = <<invoice.supplier>>
                   /\ c.s = [State EXCEPT !.invoices = c.s.invoices,
                                           !.holdings = c.s.holdings,
                                           !.holder_list = c.s.holder_list]
            /\ buyer # invoice.buyer =>
                   (c.res = "Unauthorized" /\ Commit(State, c) = State)
            /\ (buyer = invoice.buyer /\ invoice.status # "Draft") =>
                   (c.res = "InvalidStatus" /\ Commit(State, c) = State)

\* an invoice just approved: the supplier holds the whole mint, nothing is
\* sold, no auction runs and nobody is approved to invest
C24_Witness ==
    \E i \in DOMAIN invoices :
        /\ invoices[i].status = "Verified"
        /\ invoices[i].tokens_sold = 0
        /\ invoices[i].tokens_remaining = invoices[i].amount
        /\ invoices[i].auction_start = 0
        /\ DOMAIN holdings = {<<i, invoices[i].supplier>>}
        /\ AmountHeld(State, i, invoices[i].supplier) = invoices[i].total_tokens
        /\ now = invoices[i].created_at
        /\ \A a \in Addresses : ~get_kyc_status(State, a)

\* C25  revoke called by the invoice's supplier succeeds exactly when the
\* status is Draft, or the status is Verified and now > due_date; on success it
\* deletes every holding of the invoice and sets status Revoked; in every other
\* status (or Verified with now <= due_date) it fails with CannotRevoke, and a
\* caller other than the supplier fails with Unauthorized, with state unchanged.
C25_Revoke ==
    \A i \in DOMAIN invoices : \A t \in ProbeTimes(invoices[i]) :
      \A supplier \in Callers(Supplier) :
        LET invoice == invoices[i]
            c == revoke(State, t, i, supplier)
            revocable == \/ invoice.status = "Draft"
                         \/ (invoice.status = "Verified" /\ t > invoice.due_date)
        IN  IF supplier # invoice.supplier
            THEN c.res = "Unauthorized" /\ Commit(State, c) = State
            ELSE IF revocable
            THEN /\ c.res = "Ok"
                 /\ HoldingsOf(c.s, i) = <<>>
                 /\ get_all_holders(c.s, i) = <<>>
                 /\ StatusOf(c.s, i) = "Revoked"
            ELSE c.res = "CannotRevoke" /\ Commit(State, c) = State

\* an approved invoice revoked after its due date, before anything was sold
C25_Witness ==
    \E i \in DOMAIN invoices :
        /\ invoices[i].status = "Revoked"
        /\ invoices[i].total_tokens > 0
        /\ invoices[i].tokens_sold = 0
        /\ now > invoices[i].due_date
        /\ burned[i] = invoices[i].total_tokens
        /\ HoldingsOf(State, i) = <<>>

\* C26 as stated: revocation from Verified is possible only before any
\* investment: whenever revoke succeeds, tokens_sold = 0 for that invoice, so
\* revoke never deletes a holding that an investor paid for.
C26_RevokeOnlyUnsold ==
    \A i \in DOMAIN invoices : \A supplier \in Callers(Supplier) :
        LET c == revoke(State, now, i, supplier) IN
        c.res = "Ok" => invoices[i].tokens_sold = 0

\* what C30 says of transfer_tokens between two holders, for the given pairs
TransferAsDescribed(pairs) ==
    \A i \in DOMAIN invoices : \A pair \in pairs : \A amount \in TransferAmounts \cup {-1, 1} :
        LET from == pair[1]
            to == pair[2]
            invoice == invoices[i]
            open == invoice.status \in {"Verified", "Funding", "Funded"}
            covered == has_token_holding(State, i, from)
                          /\ get_token_holding(State, i, from).amount >= amount
            c == transfer_tokens(State, i, from, to, amount)
        IN  /\ c.res = "Ok" =>
                   /\ open /\ covered
                   /\ AmountHeld(c.s, i, from) = AmountHeld(State, i, from) - amount
                   /\ AmountHeld(State, i, from) = amount => ~has_token_holding(c.s, i, from)
                   /\ has_token_holding(c.s, i, to)
                   /\ AmountHeld(c.s, i, to) = AmountHeld(State, i, to) + amount
                   /\ \A k \in (DOMAIN holdings \cup DOMAIN c.s.holdings)
                                \ {<<i, from>>, <<i, to>>} :
                          k \in DOMAIN holdings /\ k \in DOMAIN c.s.holdings
                              /\ c.s.holdings[k] = holdings[k]
                   /\ c.s.invoices = invoices
            /\ ~open => (c.res = "InvalidStatus" /\ Commit(State, c) = State)
            /\ (open /\ ~covered) =>
                   (c.res = "InsufficientTokens" /\ Commit(State, c) = State)

\* C30 as stated: transfer_tokens succeeds only when the invoice is Verified,
\* Funding or Funded and from's holding is >= amount; it then reduces from's
\* holding by amount (deleting it on exact depletion) and raises to's holding
\* by amount (creating it if absent), changing no other holding and none of
\* tokens_sold/tokens_remaining; in any other status it fails with
\* InvalidStatus and with an insufficient or missing holding with
\* InsufficientTokens; for every from and to.
C30_TransferBetweenAny == TransferAsDescribed(Traders \X Traders)

\* C30  The same for from # to; a transfer to oneself succeeds under the same
\* conditions and leaves every amount held, and the invoice, as it was.
C30_TransferTokens ==
    /\ TransferAsDescribed({pair \in Traders \X Traders : pair[1] # pair[2]})
    /\ \A i \in DOMAIN invoices : \A from \in Traders : \A amount \in TransferAmounts \cup {-1, 1} :
           LET c == transfer_tokens(State, i, from, from, amount) IN
           /\ c.res = "Ok" <=>
                  /\ invoices[i].status \in {"Verified", "Funding", "Funded"}
                  /\ has_token_holding(State, i, from)
                  /\ get_token_holding(State, i, from).amount >= amount
           /\ c.res = "Ok" =>
                  /\ \A a \in Addresses : AmountHeld(c.s, i, a) = AmountHeld(State, i, a)
                  /\ c.s.invoices = invoices

\* a funded invoice whose investor handed a lot back to the supplier
C30_Witness ==
    \E i \in DOMAIN invoices :
        /\ invoices[i].status = "Funded"
        /\ invoices[i].tokens_remaining = 0
        /\ has_token_holding(State, i, invoices[i].supplier)
        /\ AmountHeld(State, i, invoices[i].supplier) = Lot
        /\ AmountHeld(State, i, Investor) = invoices[i].total_tokens - Lot

\* the amounts offered to an order when a property asks about every fill
FillOffers == {-1, 0, 1, Lot, FaceAmount}

\* a Filled or Cancelled order keeps its status and its tokens_remaining
TerminalOrdersKept ==
    \A o \in DOMAIN sell_orders :
        sell_orders[o].status \in {"Filled", "Cancelled"} =>
            /\ o \in DOMAIN sell_orders'
            /\ sell_orders'[o].status = sell_orders[o].status
            /\ sell_orders'[o].tokens_remaining = sell_orders[o].tokens_remaining

\* what C27 says of the calls on an order, for the buyers and the cancelling
\* callers given
TerminalOrderCalls(buyers, cancellers(_)) ==
    \A o \in DOMAIN sell_orders :
        LET order == sell_orders[o] IN
        /\ order.status \in {"Filled", "Cancelled"} =>
               \A buyer \in buyers : \A token_amount \in FillOffers :
                   LET c == fill_order(State, now, o, buyer, token_amount) IN
                   c.res = "OrderNotActive" /\ Commit(State, c) = State
        /\ order.status = "Filled" =>
               \A caller \in cancellers(order) :
                   LET c == cancel_order(State, o, caller) IN
                   c.res = "OrderAlreadyFilled" /\ Commit(State, c) = State
        /\ order.status # "Filled" =>
               LET c == cancel_order(State, o, order.seller) IN
               /\ c.res = "Ok"
               /\ c.s.sell_orders[o].status = "Cancelled"

\* C27 as stated: once an order is Filled or Cancelled its status and
\* tokens_remaining never change again; fill_order on it fails with
\* OrderNotActive, cancel_order on a Filled order fails with
\* OrderAlreadyFilled, and cancel_order by the seller succeeds on an order in
\* any status other than Filled; whoever calls.
C27_TerminalForAnyCaller ==
    /\ []TerminalOrderCalls(Traders, LAMBDA order : Traders)
    /\ [][TerminalOrdersKept]_vars

\* C27  Once an order is Filled or Cancelled its status and tokens_remaining
\* never change again; fill_order on it by a KYC-approved buyer fails with
\* OrderNotActive and by any other buyer with KYCRequired, cancel_order on a
\* Filled order by its seller fails with OrderAlreadyFilled and by anyone else
\* with Unauthorized, and cancel_order by the seller succeeds on an order in
\* any status other than Filled.
C27_TerminalOrders ==
    /\ []TerminalOrderCalls({a \in Traders : kyc[a]}, LAMBDA order : {order.seller})
    /\ [](\A o \in DOMAIN sell_orders :
             /\ \A buyer \in {a \in Traders : ~kyc[a]} : \A token_amount \in FillOffers :
                    fill_order(State, now, o, buyer, token_amount).res = "KYCRequired"
             /\ \A caller \in Traders \ {sell_orders[o].seller} :
                    cancel_order(State, o, caller).res = "Unauthorized")
    /\ [][TerminalOrdersKept]_vars

\* an order filled in two lots beside an order cancelled after its first lot
C27_Witness ==
    \E o1, o2 \in DOMAIN sell_orders :
        /\ sell_orders[o1].status = "Filled"
        /\ sell_orders[o1].token_amount = FaceAmount
        /\ sell_orders[o2].status = "Cancelled"
        /\ sell_orders[o2].tokens_remaining = Lot
        /\ sell_orders[o2].token_amount = FaceAmount

\* C28  A successful fill_order of token_amount transfers exactly
\* token_amount * price_per_token of the payment asset from the buyer to the
\* seller, moves token_amount from the seller's holding to the buyer's,
\* reduces the order's tokens_remaining by token_amount and sets the order
\* Filled when tokens_remaining reaches zero and PartiallyFilled otherwise; the
\* insurance pool, the contract's payment balance and the invoice's
\* tokens_sold/tokens_remaining are unchanged.  (Every account and every
\* holder is compared: what leaves the buyer or the seller reaches the other,
\* and a buyer who is the seller ends where they began.)
C28_FillOrder ==
    \A o \in DOMAIN sell_orders : \A buyer \in Traders : \A token_amount \in FillOffers :
        LET order == sell_orders[o]
            i == order.invoice_id
            payment == token_amount * order.price_per_token
            c == fill_order(State, now, o, buyer, token_amount)
        IN  c.res = "Ok" =>
                /\ \A a \in Accounts :
                       c.s.bal[a] = bal[a] - (IF a = buyer THEN payment ELSE 0)
                                           + (IF a = order.seller THEN payment ELSE 0)
                /\ \A a \in Addresses :
                       AmountHeld(c.s, i, a) =
                           AmountHeld(State, i, a)
                               - (IF a = order.seller THEN token_amount ELSE 0)
                               + (IF a = buyer THEN token_amount ELSE 0)
                /\ c.s.sell_orders[o].tokens_remaining = order.tokens_remaining - token_amount
                /\ c.s.sell_orders[o].status =
                       IF order.tokens_remaining - token_amount = 0 THEN "Filled"
                       ELSE "PartiallyFilled"
                /\ c.s.insurance_pool = insurance_pool
                /\ c.s.bal[ContractAddress] = bal[ContractAddress]
                /\ c.s.invoices[i].tokens_sold = invoices[i].tokens_sold
                /\ c.s.invoices[i].tokens_remaining = invoices[i].tokens_remaining

\* an order of 100 tokens at 2 a token of which the investor has bought the
\* first lot: 100 units paid to the supplier
C28_Witness ==
    \E o \in DOMAIN sell_orders :
        /\ sell_orders[o].status = "PartiallyFilled"
        /\ sell_orders[o].seller = Supplier
        /\ sell_orders[o].price_per_token = 2
        /\ sell_orders[o].tokens_remaining = Lot
        /\ bal[Supplier] = 2 * Lot
        /\ bal[Investor] = InitialBalance[Investor] - 2 * Lot
        /\ AmountHeld(State, sell_orders[o].invoice_id, Investor) = Lot

\* listing: create_sell_order succeeds whenever the seller's holding is >= the
\* listed amount, whatever the seller's other orders, and stores an Open order
\* of that amount without touching a holding
ListingDoesNotLock ==
    \A i \in DOMAIN invoices : \A seller \in Traders :
    \A token_amount \in FillOffers : \A price_per_token \in OrderPrices :
        LET c == create_sell_order(State, now, i, seller, token_amount, price_per_token)
            order_id == generate_order_id(order_counter)
        IN  (has_token_holding(State, i, seller)
                /\ get_token_holding(State, i, seller).amount >= token_amount) =>
                /\ c.res = "Ok"
                /\ c.s.sell_orders[order_id].status = "Open"
                /\ c.s.sell_orders[order_id].tokens_remaining = token_amount
                /\ c.s.holdings = holdings

\* a fill for more than the seller holds: it fails and leaves the storage as
\* it was, with InsufficientTokens when the buyers given make it
OversoldFillFails(buyers(_, _)) ==
    \A o \in DOMAIN sell_orders : \A buyer \in Traders : \A token_amount \in FillOffers :
        LET order == sell_orders[o]
            c == fill_order(State, now, o, buyer, token_amount)
        IN  token_amount > AmountHeld(State, order.invoice_id, order.seller) =>
                /\ c.res # "Ok"
                /\ Commit(State, c) = State
                /\ buyer \in buyers(order, token_amount) => c.res = "InsufficientTokens"

\* no fill moves more than the seller holds, and no holder is left below zero
FillsWithinHolding ==
    /\ \A o \in DOMAIN sell_orders : \A buyer \in Traders : \A token_amount \in FillOffers :
           LET order == sell_orders[o]
               c == fill_order(State, now, o, buyer, token_amount)
           IN  c.res = "Ok" =>
                   /\ token_amount <= AmountHeld(State, order.invoice_id, order.seller)
                   /\ AmountHeld(c.s, order.invoice_id, order.seller) >= 0
    /\ \A k \in DOMAIN holdings : holdings[k].amount >= 0
    /\ \A i \in DOMAIN invoices : HeldSum(State, i) = invoices[i].total_tokens

\* C29 as stated: create_sell_order succeeds whenever the seller's current
\* holding is >= the listed amount, even if the seller's other open orders
\* already cover that holding; a fill_order for more than the seller now holds
\* fails with InsufficientTokens, moves no payment and leaves the order
\* unchanged; and no sequence of fills ever transfers more tokens than the
\* seller held.
C29_OversoldFillInsufficientTokens ==
    /\ ListingDoesNotLock
    /\ OversoldFillFails(LAMBDA order, token_amount : Traders)
    /\ FillsWithinHolding

\* C29  The same, where the fill for more than the seller holds fails with
\* InsufficientTokens when the buyer is KYC-approved, the order is Open or
\* PartiallyFilled and the buyer's balance covers a payment that is not
\* negative, or when the amount exceeds the order's tokens_remaining; every
\* other such fill fails as well, with KYCRequired, OrderNotActive or the
\* failure of the payment transfer, and none changes the storage.
C29_ListingDoesNotLock ==
    /\ ListingDoesNotLock
    /\ OversoldFillFails(LAMBDA order, token_amount :
           {b \in Traders :
               /\ kyc[b]
               /\ order.status \in {"Open", "PartiallyFilled"}
               /\ \/ token_amount > order.tokens_remaining
                  \/ /\ token_amount * order.price_per_token >= 0
                     /\ bal[b] >= token_amount * order.price_per_token})
    /\ FillsWithinHolding

\* the supplier listed its 100 tokens twice; the first order is filled, the
\* second is still open for 100 tokens the supplier no longer holds, and the
\* investor has the funds for a lot of it
C29_Witness ==
    \E o1, o2 \in DOMAIN sell_orders :
        /\ sell_orders[o1].seller = Supplier /\ sell_orders[o2].seller = Supplier
        /\ sell_orders[o1].status = "Filled"
        /\ sell_orders[o1].token_amount = FaceAmount
        /\ sell_orders[o2].status = "Open"
        /\ sell_orders[o2].tokens_remaining = FaceAmount
        /\ ~has_token_holding(State, sell_orders[o2].invoice_id, Supplier)
        /\ kyc[Investor]
        /\ bal[Investor] >= Lot * sell_orders[o2].price_per_token
        /\ fill_order(State, now, o2, Investor, Lot).res = "InsufficientTokens"

\* C31 as stated: every stored holding has a strictly positive amount in every
\* reachable state, for any amounts passed to invest, transfer_tokens and
\* fill_order.
C31_HoldingsPositive == \A k \in DOMAIN holdings : holdings[k].amount > 0

\* C32  The per-invoice holder list and the holdings stay synchronized in every
\* reachable state: an address is in the invoice's holder list exactly when a
\* holding record for (invoice, address) exists, and the list contains no
\* address twice.
C32_HolderListSynchronized ==
    \A i \in InvoiceIds :
        LET holders == get_all_holders(State, i) IN
        /\ \A a \in Addresses :
               (\E n \in 1..Len(holders) : holders[n] = a) <=> has_token_holding(State, i, a)
        /\ \A m, n \in 1..Len(holders) : holders[m] = holders[n] => m = n

\* the supplier sold out, left the list, and came back behind the investor
\* through a transfer
C32_Witness ==
    \E i \in DOMAIN invoices :
        /\ get_all_holders(State, i) = <<Investor, invoices[i].supplier>>
        /\ has_token_holding(State, i, Investor)
        /\ has_token_holding(State, i, invoices[i].supplier)

\* the end of the grace period of an invoice has passed
GraceOver(i) ==
    /\ has_invoice(State, i)
    /\ now > get_invoice(State, i).due_date + grace_period_days * SECONDS_PER_DAY

\* C33  Liveness of default detection: for an invoice that has been approved
\* and is never settled, disputed or revoked, if time advances beyond
\* due_date + grace period and check_status is invoked afterwards (weak
\* fairness on check_status), the invoice eventually reaches Defaulted and
\* stays there.
C33_DefaultDetected ==
    \A i \in InvoiceIds :
        ([](StatusOf(State, i) \notin {"Settled", "Disputed", "Revoked"})
            /\ <>(GraceOver(i) /\ StatusOf(State, i) # "Draft"))
        => <>[](StatusOf(State, i) = "Defaulted")

\* an invoice, part of it sold, found in default after the end of its grace
\* period
C33_Witness ==
    \E i \in DOMAIN invoices :
        /\ GraceOver(i)
        /\ invoices[i].status = "Defaulted"
        /\ invoices[i].tokens_sold > 0
        /\ ~has_dispute(State, i)

\* C34  Pool solvency: starting from an empty contract and with no outside
\* transfers to it, in every reachable state the insurance pool balance is
\* >= 0 and the contract's payment-asset balance is >= the insurance pool
\* balance, so a claim_insurance payout capped at the pool can always be paid.
C34_PoolSolvent ==
    /\ insurance_pool >= 0
    /\ bal[ContractAddress] >= insurance_pool
    /\ \A i \in DOMAIN invoices : \A investor \in Traders :
           claim_insurance(State, now, i, investor).res # "HostError"

\* a default on which a claim was paid from a pool that is not yet empty
C34_Witness ==
    /\ insurance_claimed # {}
    /\ insurance_pool > 0
    /\ bal[ContractAddress] >= insurance_pool

\* C35 as stated: a successful transfer_tokens(from, to, amount), for any
\* integer amount it accepts (including zero and negative values), never
\* decreases the holding of any address other than from and never increases
\* from's holding.
C35_OnlyFromGivesUp ==
    \A i \in DOMAIN invoices : \A from, to \in Traders : \A amount \in TransferAmounts \cup {-1, 1} :
        LET c == transfer_tokens(State, i, from, to, amount) IN
        c.res = "Ok" =>
            /\ \A a \in Addresses \ {from} : AmountHeld(c.s, i, a) >= AmountHeld(State, i, a)
            /\ AmountHeld(c.s, i, from) <= AmountHeld(State, i, from)

\* C36 as stated: in every reachable state, an invoice whose status is Funded
\* has tokens_remaining = 0, and an invoice whose status is Verified or
\* Funding has tokens_remaining > 0.
C36_FundedMeansSoldOut ==
    \A i \in DOMAIN invoices :
        /\ invoices[i].status = "Funded" => invoices[i].tokens_remaining = 0
        /\ invoices[i].status \in {"Verified", "Funding"} => invoices[i].tokens_remaining > 0

\* storage s holds the amounts of invoice_id that the current state holds
SameAmountsHeld(s, invoice_id) ==
    \A a \in Addresses : AmountHeld(s, invoice_id, a) = AmountHeld(State, invoice_id, a)

\* C37 as stated: a disputed invoice is frozen for holders: while its status
\* is Disputed, no transfer_tokens, invest, create_sell_order followed by
\* fill_order, revoke or settle changes any holding amount of the invoice.
C37_DisputedFrozen ==
    \A i \in DOMAIN invoices :
        invoices[i].status = "Disputed" =>
            /\ \A from, to \in Traders : \A amount \in TransferAmounts :
                   SameAmountsHeld(Commit(State, transfer_tokens(State, i, from, to, amount)), i)
            /\ \A investor \in Traders : \A token_amount \in InvestAmounts :
                   SameAmountsHeld(Commit(State, invest(State, now, i, investor, token_amount)), i)
            /\ \A supplier \in Callers(Supplier) :
                   SameAmountsHeld(Commit(State, revoke(State, now, i, supplier)), i)
            /\ \A buyer \in Callers(Buyer) : \A payment_amount \in PaymentAmounts :
                   SameAmountsHeld(Commit(State, settle(State, now, i, buyer, payment_amount)), i)
            /\ \A seller, buyer \in Traders : \A price_per_token \in OrderPrices :
                   LET listed == Commit(State, create_sell_order(State, now, i, seller, Lot,
                                                                 price_per_token))
                       filled == Commit(listed, fill_order(listed, now,
                                                           generate_order_id(order_counter),
                                                           buyer, Lot))
                   IN  SameAmountsHeld(filled, i)

\* C38 as stated: for every invoice, the total amount ever paid out by
\* claim_insurance to all holders of that invoice is at most half of the
\* total payment_amount that investors paid through invest on that invoice.
C38_ClaimsWithinHalfInvested ==
    \A i \in InvoiceIds : 2 * claimed_out[i] <= invested[i]

\* C39 as stated: while an invoice is in Verified or Funding, the supplier's
\* holding amount is >= tokens_remaining, so every invest with token_amount
\* <= tokens_remaining by a KYC-approved investor with sufficient funds can be
\* served from the supplier's holding.
C39_SupplierCoversRemaining ==
    \A i \in DOMAIN invoices :
        invoices[i].status \in {"Verified", "Funding"} =>
            /\ AmountHeld(State, i, invoices[i].supplier) >= invoices[i].tokens_remaining
            /\ \A investor \in Traders : \A token_amount \in InvestAmounts \cup InvestOffers :
                   LET payment_amount == invest_payment_amount(State, now, i, token_amount) IN
                   (/\ kyc[investor]
                    /\ token_amount <= invoices[i].tokens_remaining
                    /\ payment_amount >= 0
                    /\ bal[investor] >= payment_amount) =>
                       invest(State, now, i, investor, token_amount).res = "Ok"

\* a successful call of spender that spends amount of the unexpired allowance
\* of from leaves the allowance at the previous one minus amount
SpendsAsDescribed(from, spender, amount) ==
    LET previous == read_allowance(token, sequence, from, spender).amount
        Decrements(c) ==
            c.res = "Ok" =>
                read_allowance(c.s, sequence, from, spender).amount = previous - amount
    IN  (0 < amount /\ amount <= previous) =>
            /\ Decrements(burn_from(token, sequence, spender, from, amount))
            /\ \A to \in Recipients :
                   Decrements(transfer_from(token, sequence, spender, from, to, amount))

\* C40  Token contract allowance accounting: in every reachable state of the token
\* contract, a transfer_from or burn_from that spends an amount a with
\* 0 < a <= the current unexpired allowance leaves allowance(from, spender) at
\* the previous allowance minus a (zero when a is the whole allowance), and the
\* amounts a spender has moved out of from's balance never exceed the amounts
\* from has approved to that spender.
C40_AllowanceAccounting ==
    /\ \A from \in TokenOwners : \A spender \in Spenders : \A amount \in SpendAmounts :
           SpendsAsDescribed(from, spender, amount)
    /\ \A k \in PairKeys : drawn[k] <= granted[k]

====
